---------------------------- MODULE Spec2Model ----------------------------
(***************************************************************************)
(* Channel identity resolution (scripts/livesource/auto_alias_updater.py)  *)
(* and the FreeTV playlist pipeline (scripts/freetv/data/freetv1.0.py,     *)
(* freetv2.0.py).                                                          *)
(*                                                                         *)
(* A Python str is a sequence of characters.  An ASCII character is the    *)
(* one-character string itself; a CJK character is written "uXXXX", its    *)
(* code point, e.g. <<"u536B", "u89C6">> is the two-character satellite    *)
(* marker U+536B U+89C6.                                                   *)
(***************************************************************************)
EXTENDS Integers, Sequences, FiniteSets, TLC

VARIABLES
  standard_to_aliases,  \* ChannelAliasManager.standard_to_aliases: name -> set
  alias_to_standard,    \* ChannelAliasManager.alias_to_standard, as the
                        \* insertion-ordered sequence of its (key, value) items
  added,                \* the raw names add_channel was called with, in order
  resolved,             \* the canonical name each of these calls resolved
                        \* its name to, <<>> for a call that returned at once
  name_in,              \* a raw name handed to the two cleaning functions
  name_display,         \* clean_channel_name(name_in)
  key_direct,           \* clean_for_matching(name_in)
  key_display,          \* clean_for_matching(name_display)
  norm_pc,              \* "idle" | "raw" | "cleaned" | "keyed"
  run_pc,               \* where update_aliases / main stands
  source_urls,          \* the URLs load_subscription_sources returned
  url_pos,              \* fetch_live_sources: index of the URL being fetched
  attempt,              \* fetch_live_sources: attempts made for that URL
  contents,             \* the dict fetch_live_sources fills: <<url, text>>
  fetch_log,            \* the session.get calls made, in order, each with
                        \* its URL, whether it answered 200, and the text
  src_pos,              \* update_aliases: next item of contents to process
  pending,              \* channels of the current source not yet added
  disk,                 \* the alias file on disk: [exists, lines]
  disk_before,          \* the alias file as it was when the run started
  writes_left,          \* save_aliases_to_file: the f.write calls still to do
  save_called,          \* save_aliases_to_file was called in this run
  returned,             \* "none" | "True" | "False" | "raised"
  exit_code,            \* the exit status of the process, -1 while it runs
  ftv_pc,               \* where FreeTVProcessor.run stands
  ftv_version,          \* "1.0" (freetv1.0.py) | "2.0" (freetv2.0.py)
  rename_dic,           \* self.rename_dic: <<wrong name, correct name>>
  channel_lists,        \* the lists channel_list, cctv_list and ws_list
  feed_pos,             \* run: index of the source URL processed next
  freetv_lines,         \* self.freetv_lines
  categorized_channels, \* the lists of the categories cctv, ws and other
  output_files,         \* the lines of the playlist files written
  fn_pc,                \* "idle" | "input" | the function applied to fn_arg
  fn_arg,               \* the str a function is applied to
  fn_result             \* what the function yields, a set of str

mgr_vars == <<standard_to_aliases, alias_to_standard, added, resolved>>
norm_vars == <<name_in, name_display, key_direct, key_display, norm_pc>>
run_vars ==
  <<run_pc, source_urls, url_pos, attempt, contents, fetch_log, src_pos,
    pending, disk, disk_before, writes_left, save_called, returned, exit_code>>
ftv_vars ==
  <<ftv_pc, ftv_version, rename_dic, channel_lists, feed_pos, freetv_lines,
    categorized_channels, output_files>>
fn_vars == <<fn_pc, fn_arg, fn_result>>
vars == <<mgr_vars, norm_vars, run_vars, ftv_vars, fn_vars>>

(***************************************************************************)
(* str primitives                                                          *)
(***************************************************************************)
UpperLetters ==
  <<"A", "B", "C", "D", "E", "F", "G", "H", "I", "J", "K", "L", "M",
    "N", "O", "P", "Q", "R", "S", "T", "U", "V", "W", "X", "Y", "Z">>

LowerLetters ==
  <<"a", "b", "c", "d", "e", "f", "g", "h", "i", "j", "k", "l", "m",
    "n", "o", "p", "q", "r", "s", "t", "u", "v", "w", "x", "y", "z">>

Digits == {"0", "1", "2", "3", "4", "5", "6", "7", "8", "9"}

\* ASCII characters that are not \w (quotes, backquote and backslash are left out
\* of the model's alphabet); every other character of the model (ASCII letters,
\* digits, "_", CJK) is a word character.
NonWordChars ==
  {" ", "\t", "\n", "!", "#", "$", "%", "&", "(", ")", "*", "+",
   ",", "-", ".", "/", ":", ";", "<", "=", ">", "?", "@", "[", "]",
   "^", "{", "|", "}", "~"}

\* \s
Whitespace == {" ", "\t", "\n"}

lower_char(c) ==
  IF \E i \in DOMAIN UpperLetters : UpperLetters[i] = c
    THEN LowerLetters[CHOOSE i \in DOMAIN UpperLetters : UpperLetters[i] = c]
    ELSE c

upper_char(c) ==
  IF \E i \in DOMAIN LowerLetters : LowerLetters[i] = c
    THEN UpperLetters[CHOOSE i \in DOMAIN LowerLetters : LowerLetters[i] = c]
    ELSE c

\* str.lower(), str.upper()
lower(s) == [i \in 1..Len(s) |-> lower_char(s[i])]
upper(s) == [i \in 1..Len(s) |-> upper_char(s[i])]

\* s[i:] and s[:n] with 0-based Python indices i, n >= 0
slice_from(s, i) == SubSeq(s, i + 1, Len(s))
slice_to(s, n) == SubSeq(s, 1, IF n < Len(s) THEN n ELSE Len(s))

startswith(s, p) == Len(p) <= Len(s) /\ SubSeq(s, 1, Len(p)) = p
endswith(s, p) == Len(p) <= Len(s) /\ SubSeq(s, Len(s) - Len(p) + 1, Len(s)) = p

\* sub in s
contains(s, sub) ==
  \E i \in 1..(Len(s) - Len(sub) + 1) : SubSeq(s, i, i + Len(sub) - 1) = sub

\* s.replace(old, new) for a non-empty old: leftmost, non-overlapping
RECURSIVE replace(_, _, _)
replace(s, old, new) ==
  IF Len(s) < Len(old) THEN s
  ELSE IF SubSeq(s, 1, Len(old)) = old
    THEN new \o replace(SubSeq(s, Len(old) + 1, Len(s)), old, new)
    ELSE <<Head(s)>> \o replace(Tail(s), old, new)

\* for t in tokens: s = s.replace(t, <empty>)
RECURSIVE remove_tokens(_, _)
remove_tokens(s, tokens) ==
  IF tokens = <<>> THEN s
  ELSE remove_tokens(replace(s, Head(tokens), <<>>), Tail(tokens))

\* first 1-based index >= i of s holding a character outside cs (Len(s)+1 if none)
RECURSIVE skip_chars(_, _, _)
skip_chars(s, i, cs) ==
  IF i <= Len(s) /\ s[i] \in cs THEN skip_chars(s, i + 1, cs) ELSE i

\* re.sub(r'\s+', ' ', s)
RECURSIVE collapse_whitespace(_)
collapse_whitespace(s) ==
  IF s = <<>> THEN <<>>
  ELSE IF Head(s) \in Whitespace
    THEN <<" ">> \o collapse_whitespace(slice_from(s, skip_chars(s, 1, Whitespace) - 1))
    ELSE <<Head(s)>> \o collapse_whitespace(Tail(s))

\* last 1-based index <= i of s holding a character outside cs (0 if none)
RECURSIVE skip_chars_back(_, _, _)
skip_chars_back(s, i, cs) ==
  IF i >= 1 /\ s[i] \in cs THEN skip_chars_back(s, i - 1, cs) ELSE i

\* s.strip()
strip(s) ==
  SubSeq(s, skip_chars(s, 1, Whitespace), skip_chars_back(s, Len(s), Whitespace))

\* num.zfill(2): left-pad with "0" to width 2, after a leading sign
zfill2(num) ==
  IF Len(num) >= 2 THEN num
  ELSE IF Len(num) = 0 THEN <<"0", "0">>
  ELSE IF num[1] \in {"+", "-"} THEN <<num[1], "0">>
  ELSE <<"0", num[1]>>

(***************************************************************************)
(* ChannelAliasManager: name cleaning                                      *)
(***************************************************************************)
\* the quality list of clean_channel_name
QualityTokens ==
  << <<"4", "K">>, <<"1", "0", "8", "0", "P">>, <<"7", "2", "0", "P">>,
     <<"H", "D">>,
     <<"u8D85", "u6E05">>, <<"u9AD8", "u6E05">>, <<"u6807", "u6E05">> >>

\* the quality list of clean_for_matching
MatchingQualityTokens ==
  << <<"4", "k">>, <<"1", "0", "8", "0", "p">>, <<"7", "2", "0", "p">>,
     <<"h", "d">>,
     <<"u8D85", "u6E05">>, <<"u9AD8", "u6E05">>, <<"u6807", "u6E05">> >>

IsWordChar(c) == c \notin NonWordChars

clean_for_matching(name) ==
  SelectSeq(remove_tokens(lower(name), MatchingQualityTokens), IsWordChar)

clean_channel_name(name) ==
  strip(collapse_whitespace(remove_tokens(name, QualityTokens)))


(***************************************************************************)
(* ChannelAliasManager: canonical name synthesis                           *)
(***************************************************************************)
CCTV == <<"C", "C", "T", "V">>

\* the satellite marker U+536B U+89C6
WeiShi == <<"u536B", "u89C6">>

\* cctv_match_at with the separator class [\-\s]* left out of the pattern
cctv_match_at_no_separator(name, i) ==
  /\ i + 4 <= Len(name)
  /\ lower(SubSeq(name, i, i + 3)) = lower(CCTV)
  /\ name[i + 4] \in Digits

\* re.search(r'CCTV[\-\s]*(\d+\+?)', name, re.IGNORECASE) matches at index i
cctv_match_at(name, i) ==
  /\ i + 3 <= Len(name)
  /\ lower(SubSeq(name, i, i + 3)) = lower(CCTV)
  /\ LET d == skip_chars(name, i + 4, {"-"} \cup Whitespace)
     IN  d <= Len(name) /\ name[d] \in Digits

\* group(1) of the match at index i: the digits and an optional "+"
cctv_group(name, i) ==
  LET d == skip_chars(name, i + 4, {"-"} \cup Whitespace)
      e == skip_chars(name, d, Digits)
  IN  SubSeq(name, d, IF e <= Len(name) /\ name[e] = "+" THEN e ELSE e - 1)

\* group(1) of the leftmost match, <<>> when the pattern does not match
cctv_search(name) ==
  IF \E i \in 1..Len(name) : cctv_match_at(name, i)
    THEN cctv_group(name, CHOOSE i \in 1..Len(name) :
           /\ cctv_match_at(name, i)
           /\ \A j \in 1..(i - 1) : ~cctv_match_at(name, j))
    ELSE <<>>

\* the region list of generate_standard_name, in its order
Regions ==
  << <<"u6E56", "u5357">>,
     <<"u6C5F", "u82CF">>,
     <<"u6D59", "u6C5F">>,
     <<"u5317", "u4EAC">>,
     <<"u4E1C", "u65B9">>,
     <<"u5E7F", "u4E1C">>,
     <<"u6DF1", "u5733">>,
     <<"u5929", "u6D25">> >>

Unknown == <<"U", "n", "k", "n", "o", "w", "n">>

StandardNameMaxLen == 30

\* the rules with the region rule tried before the CCTV rule
generate_standard_name_region_first(channel_name) ==
  IF \E r \in DOMAIN Regions :
       contains(channel_name, Regions[r]) /\ contains(channel_name, WeiShi)
    THEN Regions[CHOOSE r \in DOMAIN Regions :
           /\ contains(channel_name, Regions[r])
           /\ \A q \in 1..(r - 1) : ~contains(channel_name, Regions[q])] \o WeiShi
  ELSE IF cctv_search(channel_name) # <<>>
    THEN CCTV \o upper(cctv_search(channel_name))
  ELSE LET clean_name == clean_channel_name(channel_name)
       IN  IF clean_name # <<>> THEN slice_to(clean_name, StandardNameMaxLen)
                                ELSE Unknown

generate_standard_name(channel_name) ==
  IF cctv_search(channel_name) # <<>>
    THEN CCTV \o upper(cctv_search(channel_name))
  ELSE IF \E r \in DOMAIN Regions :
            contains(channel_name, Regions[r]) /\ contains(channel_name, WeiShi)
    THEN Regions[CHOOSE r \in DOMAIN Regions :
           /\ contains(channel_name, Regions[r])
           /\ \A q \in 1..(r - 1) : ~contains(channel_name, Regions[q])] \o WeiShi
  ELSE LET clean_name == clean_channel_name(channel_name)
       IN  IF clean_name # <<>> THEN slice_to(clean_name, StandardNameMaxLen)
                                ELSE Unknown

(***************************************************************************)
(* ChannelAliasManager: generated base aliases                             *)
(***************************************************************************)
\* the cctv_types table of generate_base_aliases
cctv_types ==
  <<
     [num |-> <<"1">>, types |-> << <<"u7EFC", "u5408">> >>],
     [num |-> <<"2">>, types |-> << <<"u8D22", "u7ECF">> >>],
     [num |-> <<"3">>, types |-> << <<"u7EFC", "u827A">> >>],
     [num |-> <<"4">>, types |-> << <<"u56FD", "u9645">>, <<"u4E2D", "u6587", "u56FD", "u9645">> >>],
     [num |-> <<"5">>, types |-> << <<"u4F53", "u80B2">> >>],
     [num |-> <<"5", "+">>, types |-> << <<"u4F53", "u80B2">>, <<"u4F53", "u80B2", "u8D5B", "u4E8B">> >>],
     [num |-> <<"6">>, types |-> << <<"u7535", "u5F71">> >>],
     [num |-> <<"7">>, types |-> << <<"u56FD", "u9632", "u519B", "u4E8B">>, <<"u519B", "u519C">> >>],
     [num |-> <<"8">>, types |-> << <<"u7535", "u89C6", "u5267">> >>],
     [num |-> <<"9">>, types |-> << <<"u7EAA", "u5F55">>, <<"u7EAA", "u5F55", "u7247">> >>],
     [num |-> <<"1", "0">>, types |-> << <<"u79D1", "u6559">> >>],
     [num |-> <<"1", "1">>, types |-> << <<"u620F", "u66F2">> >>]
  >>

\* the three aliases generate_base_aliases makes for each type, in the order
\* of the types
RECURSIVE type_aliases(_, _, _)
type_aliases(standard_name, num, types) ==
  IF types = <<>> THEN <<>>
  ELSE << standard_name \o Head(types),
          CCTV \o <<"-">> \o num \o Head(types),
          CCTV \o <<" ">> \o num \o <<" ">> \o Head(types) >>
       \o type_aliases(standard_name, num, Tail(types))

\* generate_base_aliases with the satellite branch left out
generate_base_aliases_cctv_only(standard_name) ==
  IF startswith(standard_name, CCTV) THEN
    LET num == slice_from(standard_name, 4)
    IN  << CCTV \o <<"-">> \o num,
           CCTV \o <<" ">> \o num,
           CCTV \o zfill2(num),
           lower(standard_name),
           lower(CCTV) \o <<"-">> \o lower(num),
           lower(CCTV) \o <<" ">> \o lower(num) >>
        \o (IF \E t \in DOMAIN cctv_types : cctv_types[t].num = num
              THEN type_aliases(standard_name, num,
                     cctv_types[CHOOSE t \in DOMAIN cctv_types :
                                  cctv_types[t].num = num].types)
              ELSE <<>>)
  ELSE <<>>

\* the list generate_base_aliases returns, in order (it may repeat an entry)
generate_base_aliases(standard_name) ==
  IF startswith(standard_name, CCTV) THEN
    LET num == slice_from(standard_name, 4)
    IN  << CCTV \o <<"-">> \o num,
           CCTV \o <<" ">> \o num,
           CCTV \o zfill2(num),
           lower(standard_name),
           lower(CCTV) \o <<"-">> \o lower(num),
           lower(CCTV) \o <<" ">> \o lower(num) >>
        \o (IF \E t \in DOMAIN cctv_types : cctv_types[t].num = num
              THEN type_aliases(standard_name, num,
                     cctv_types[CHOOSE t \in DOMAIN cctv_types :
                                  cctv_types[t].num = num].types)
              ELSE <<>>)
  ELSE IF endswith(standard_name, WeiShi) THEN
    LET base == SubSeq(standard_name, 1, Len(standard_name) - 2)
    IN  << base \o <<"u7535", "u89C6", "u53F0">>,
           base \o <<"u53F0">>,
           lower(standard_name) >>
  ELSE <<>>


(***************************************************************************)
(* ChannelAliasManager: the alias table                                    *)
(***************************************************************************)
\* A dict is the sequence of its <<key, value>> items in insertion order.
dict_has(d, k) == \E i \in DOMAIN d : d[i][1] = k
dict_get(d, k) == d[CHOOSE i \in DOMAIN d : d[i][1] = k][2]
dict_keys(d) == {d[i][1] : i \in DOMAIN d}

\* items.append((k, v)) on a list of items: an existing key is not replaced
dict_set_appending(d, k, v) == Append(d, <<k, v>>)

\* d[k] = v: a new key goes last, an existing key keeps its place
dict_set(d, k, v) ==
  IF dict_has(d, k)
    THEN [i \in DOMAIN d |-> IF d[i][1] = k THEN <<k, v>> ELSE d[i]]
    ELSE Append(d, <<k, v>>)

\* for k in ks: d[k] = v
RECURSIVE dict_set_all(_, _, _)
dict_set_all(d, ks, v) ==
  IF ks = <<>> THEN d
  ELSE dict_set_all(dict_set(d, Head(ks), v), Tail(ks), v)

\* s2a[k] = set(elems): the set of k is replaced
set_update_replacing(s2a, k, elems) ==
  [x \in DOMAIN s2a \cup {k} |-> IF x = k THEN elems ELSE s2a[x]]

\* s2a[k].update(elems) on a defaultdict(set): a missing key is created
set_update(s2a, k, elems) ==
  [x \in DOMAIN s2a \cup {k} |->
     (IF x \in DOMAIN s2a THEN s2a[x] ELSE {}) \cup (IF x = k THEN elems ELSE {})]

Range(seq) == {seq[i] : i \in DOMAIN seq}
CharsOf(s) == Range(s)

\* find_standard_name: (standard_name, is_new)
find_standard_name_last_match(a2s, channel_name) ==
  IF dict_has(a2s, channel_name)
    THEN [standard |-> dict_get(a2s, channel_name), is_new |-> FALSE]
  ELSE LET clean_name == clean_for_matching(channel_name)
           hits == {i \in DOMAIN a2s : clean_for_matching(a2s[i][1]) = clean_name}
       IN  IF hits # {}
             THEN [standard |-> a2s[CHOOSE i \in hits : \A j \in hits : i >= j][2],
                   is_new |-> FALSE]
             ELSE [standard |-> generate_standard_name(channel_name),
                   is_new |-> TRUE]

find_standard_name(a2s, channel_name) ==
  IF dict_has(a2s, channel_name)
    THEN [standard |-> dict_get(a2s, channel_name), is_new |-> FALSE]
  ELSE LET clean_name == clean_for_matching(channel_name)
           hits == {i \in DOMAIN a2s : clean_for_matching(a2s[i][1]) = clean_name}
       IN  IF hits # {}
             THEN [standard |-> a2s[CHOOSE i \in hits : \A j \in hits : i <= j][2],
                   is_new |-> FALSE]
             ELSE [standard |-> generate_standard_name(channel_name),
                   is_new |-> TRUE]

\* a test that turns away the empty name only
too_short_only_empty(channel_name) == channel_name = <<>>

\* not channel_name or len(channel_name) < 2
too_short(channel_name) == channel_name = <<>> \/ Len(channel_name) < 2

\* the table after add_channel(channel_name) on the table (s2a, a2s)
add_channel_result(s2a, a2s, channel_name) ==
  IF too_short(channel_name) THEN [s2a |-> s2a, a2s |-> a2s]
  ELSE
    LET found == find_standard_name(a2s, channel_name)
        standard_name == found.standard
        base_aliases == generate_base_aliases(standard_name)
        s2a1 == IF found.is_new
                  THEN set_update(s2a, standard_name, Range(base_aliases))
                  ELSE s2a
        a2s1 == IF found.is_new
                  THEN dict_set_all(a2s, base_aliases, standard_name)
                  ELSE a2s
    IN  IF channel_name # standard_name
          THEN [s2a |-> set_update(s2a1, standard_name, {channel_name}),
                a2s |-> dict_set(a2s1, channel_name, standard_name)]
          ELSE [s2a |-> s2a1, a2s |-> a2s1]

\* the standard_name of an add_channel call: line 188, nothing on the early
\* return of line 186
resolved_name(a2s, channel_name) ==
  IF too_short(channel_name) THEN <<>>
  ELSE find_standard_name(a2s, channel_name).standard

(***************************************************************************)
(* Sorting, joining and splitting of str                                   *)
(***************************************************************************)
\* the characters of the model in ascending code point order
CharOrder ==
  <<
    " ", "!", "#", "$", "%", "&", "(", ")", "*", "+", ",", "-", ".", "/",
    "0", "1", "2", "3", "4", "5", "6", "7", "8", "9", ":", ";", "<", "=",
    ">", "?", "@", "A", "B", "C", "D", "E", "F", "G", "H", "I", "J", "K",
    "L", "M", "N", "O", "P", "Q", "R", "S", "T", "U", "V", "W", "X", "Y",
    "Z", "[", "]", "^", "_", "a", "b", "c", "d", "e", "f", "g", "h", "i",
    "j", "k", "l", "m", "n", "o", "p", "q", "r", "s", "t", "u", "v", "w",
    "x", "y", "z", "{", "|", "}", "~", "u4E00", "u4E03", "u4E09", "u4E0A",
    "u4E1C", "u4E2D", "u4E3A", "u4E5D", "u4E8B", "u4E8C", "u4E91", "u4E94",
    "u4EAC", "u4ED6", "u4F53", "u516B", "u516D", "u5175", "u5176", "u5185",
    "u519B", "u519C", "u51C6", "u522B", "u5230", "u5267", "u52A0", "u5317",
    "u5341", "u5357", "u536B", "u53A6", "u53D1", "u53E4", "u53F0", "u5408",
    "u5409", "u540D", "u56DB", "u56E2", "u56FD", "u5733", "u57FA", "u590F",
    "u5929", "u592E", "u5957", "u5B81", "u5B89", "u5C71", "u5DDD", "u5DDE",
    "u5E7F", "u5E86", "u5EFA", "u5F55", "u5F71", "u5FBD", "u620F", "u6210",
    "u6559", "u6587", "u65B0", "u65B9", "u66F2", "u6797", "u6807", "u6C5F",
    "u6CB3", "u6D17", "u6D25", "u6D59", "u6D77", "u6DF1", "u6DFB", "u6E05",
    "u6E56", "u7247", "u73B0", "u7518", "u751F", "u7535", "u7586", "u7840",
    "u798F", "u79D1", "u79F0", "u7CFB", "u7EAA", "u7ECF", "u7EDF", "u7EFC",
    "u8083", "u80B2", "u827A", "u82CF", "u8499", "u85CF", "u897F", "u89C6",
    "u8D22", "u8D35", "u8D5B", "u8D85", "u8FBD", "u9053", "u91CD", "u95E8",
    "u9632", "u9645", "u9655", "u9891", "u9AD8", "u9ED1", "u9F99"
  >>

\* the rank of a character in code point order
CodeRank ==
  [c \in Range(CharOrder) |-> CHOOSE i \in DOMAIN CharOrder : CharOrder[i] = c]

\* a < b for two str
RECURSIVE str_less(_, _)
str_less(a, b) ==
  IF a = <<>> THEN b # <<>>
  ELSE IF b = <<>> THEN FALSE
  ELSE IF Head(a) = Head(b) THEN str_less(Tail(a), Tail(b))
  ELSE CodeRank[Head(a)] < CodeRank[Head(b)]

\* sorted(S) for a set S of str
RECURSIVE sorted(_)
sorted(S) ==
  IF S = {} THEN <<>>
  ELSE LET least == CHOOSE x \in S : \A y \in S \ {x} : str_less(x, y)
       IN  <<least>> \o sorted(S \ {least})

\* sep.join(parts)
RECURSIVE join(_, _)
join(sep, parts) ==
  IF parts = <<>> THEN <<>>
  ELSE IF Len(parts) = 1 THEN Head(parts)
  ELSE Head(parts) \o sep \o join(sep, Tail(parts))

\* s.split(c) for a one-character separator c
RECURSIVE split(_, _)
split(s, c) ==
  IF \E i \in DOMAIN s : s[i] = c
    THEN LET i == CHOOSE i \in DOMAIN s :
                    s[i] = c /\ \A j \in 1..(i - 1) : s[j] # c
         IN  <<SubSeq(s, 1, i - 1)>> \o split(SubSeq(s, i + 1, Len(s)), c)
    ELSE <<s>>

(***************************************************************************)
(* ChannelAliasManager.save_aliases_to_file                                *)
(***************************************************************************)
\* the four comment lines written first (lines 251-254)
FileHeader ==
  << <<
     "#", " ", "u8FD9", "u662F", "u9891", "u9053", "u540D", "u79F0", "u7684",
     "u522B", "u540D", "u540D", "u5355", "uFF0C", "u7528", "u4E8E", "u83B7",
     "u53D6", "u63A5", "u53E3", "u65F6", "u5C06", "u591A", "u79CD", "u540D",
     "u79F0", "u6620", "u5C04", "u4E3A", "u4E00", "u4E2A", "u540D", "u79F0",
     "u7684", "u7ED3", "u679C", "uFF0C", "u53EF", "u4EE5", "u63D0", "u5347",
     "u83B7", "u53D6", "u91CF", "u4E0E", "u51C6", "u786E", "u7387" >>,
     <<
     "#", " ", "u683C", "u5F0F", "uFF1A", "u6A21", "u677F", "u9891", "u9053",
     "u540D", "u79F0", ",", "u522B", "u540D", "1", ",", "u522B", "u540D",
     "2", ",", "u522B", "u540D", "3" >>,
     <<
     "#", " ", "T", "h", "i", "s", " ", "i", "s", " ", "t", "h", "e", " ",
     "a", "l", "i", "a", "s", " ", "l", "i", "s", "t", " ", "f", "o", "r",
     " ", "c", "h", "a", "n", "n", "e", "l", " ", "n", "a", "m", "e", "s",
     ",", " ", "u", "s", "e", "d", " ", "t", "o", " ", "m", "a", "p", " ",
     "m", "u", "l", "t", "i", "p", "l", "e", " ", "n", "a", "m", "e", "s",
     " ", "t", "o", " ", "a", " ", "s", "i", "n", "g", "l", "e", " ", "n",
     "a", "m", "e", " ", "w", "h", "e", "n", " ", "f", "e", "t", "c", "h",
     "i", "n", "g", " ", "f", "r", "o", "m", " ", "t", "h", "e", " ", "i",
     "n", "t", "e", "r", "f", "a", "c", "e", ",", " ", "i", "m", "p", "r",
     "o", "v", "i", "n", "g", " ", "t", "h", "e", " ", "f", "e", "t", "c",
     "h", " ", "v", "o", "l", "u", "m", "e", " ", "a", "n", "d", " ", "a",
     "c", "c", "u", "r", "a", "c", "y", "." >>,
     <<
     "#", " ", "F", "o", "r", "m", "a", "t", ":", " ", "T", "e", "m", "p",
     "l", "a", "t", "e", "C", "h", "a", "n", "n", "e", "l", "N", "a", "m",
     "e", ",", "A", "l", "i", "a", "s", "1", ",", "A", "l", "i", "a", "s",
     "2", ",", "A", "l", "i", "a", "s", "3" >> >>

CCTVHeader == <<"#", " ", "u592E", "u89C6", "u9891", "u9053">>
SatelliteHeader == <<"#", " ", "u536B", "u89C6", "u9891", "u9053">>
OtherHeader == <<"#", " ", "u5176", "u4ED6", "u9891", "u9053">>

\* sorted([a for a in set(aliases) if a])
unique_aliases_keeping_standard(s2a, standard) ==
  sorted({a \in s2a[standard] : a # <<>>})

\* sorted([a for a in set(aliases) if a and a != standard])
unique_aliases(s2a, standard) ==
  sorted({a \in s2a[standard] : a # <<>> /\ a # standard})

cctv_channels(s2a) == {standard \in DOMAIN s2a : startswith(standard, CCTV)}
satellite_channels(s2a) ==
  {standard \in DOMAIN s2a \ cctv_channels(s2a) : contains(standard, WeiShi)}
other_channels(s2a) ==
  (DOMAIN s2a \ cctv_channels(s2a)) \ satellite_channels(s2a)

\* the data lines of one section: f"{standard},{aliases_str}"
section_rows(s2a, standards) ==
  [i \in DOMAIN sorted(standards) |->
     << sorted(standards)[i] \o <<",">>
          \o join(<<",">>, unique_aliases(s2a, sorted(standards)[i])) >>]

\* The f.write calls of save_aliases_to_file in order; each call is given as
\* the sequence of lines it completes (a call ending in two newlines
\* completes its line and a blank line).
save_writes(s2a) ==
  << <<FileHeader[1]>>, <<FileHeader[2]>>, <<FileHeader[3]>>,
     <<FileHeader[4], <<>>>> >>
  \o (IF cctv_channels(s2a) # {}
        THEN << <<CCTVHeader>> >> \o section_rows(s2a, cctv_channels(s2a))
             \o << <<<<>>>> >>
        ELSE <<>>)
  \o (IF satellite_channels(s2a) # {}
        THEN << <<SatelliteHeader>> >>
             \o section_rows(s2a, satellite_channels(s2a)) \o << <<<<>>>> >>
        ELSE <<>>)
  \o (IF other_channels(s2a) # {}
        THEN << <<OtherHeader>> >> \o section_rows(s2a, other_channels(s2a))
        ELSE <<>>)

\* the lines of a file after the given write calls
RECURSIVE written_lines(_)
written_lines(writes) ==
  IF writes = <<>> THEN <<>> ELSE Head(writes) \o written_lines(Tail(writes))

(***************************************************************************)
(* FreeTVProcessor (2.0): reading a data file and the rename rules         *)
(***************************************************************************)
\* load_data_file on an existing file:
\* [line.strip() for line in f if line.strip() and not line.startswith('#')]
keeps_line(line) == strip(line) # <<>> /\ ~startswith(line, <<"#">>)
load_data_file(file_lines) ==
  [i \in DOMAIN SelectSeq(file_lines, keeps_line) |->
     strip(SelectSeq(file_lines, keeps_line)[i])]

\* for rule in rules: for name in rule.names: corrections[name] = rule.correct
\* on an empty dict: a name stands where it was first assigned and has the
\* value it was last assigned
assign_corrections(rules) ==
  LET places == UNION {{<<i, j>> : j \in DOMAIN rules[i].names} :
                         i \in DOMAIN rules}
      name(e) == rules[e[1]].names[e[2]]
      before(e, f) == e[1] < f[1] \/ (e[1] = f[1] /\ e[2] < f[2])
      firsts == {e \in places :
                   \A f \in places : name(f) = name(e) => ~before(f, e)}
      last(e) == CHOOSE f \in places :
                   /\ name(f) = name(e)
                   /\ \A g \in places : name(g) = name(e) => ~before(f, g)
      nth(n) == CHOOSE e \in firsts :
                  Cardinality({f \in firsts : before(f, e)}) = n - 1
  IN  [n \in 1..Cardinality(firsts) |->
         <<name(nth(n)), rules[last(nth(n))[1]].correct>>]

\* load_rename_rules over the lines load_data_file returned: the names of a
\* line are its parts after the first, stripped, the empty ones left out
nonempty(name) == name # <<>>
load_rename_rules(rules) ==
  assign_corrections(
    [i \in DOMAIN rules |->
       LET parts == split(rules[i], ",")
       IN  IF Len(parts) >= 2
             THEN [correct |-> strip(parts[1]),
                   names |-> SelectSeq([j \in 1..(Len(parts) - 1) |->
                                          strip(parts[j + 1])], nonempty)]
             ELSE [correct |-> <<>>, names |-> <<>>]])

(***************************************************************************)
(* The alias manager driven by a sequence of raw names                     *)
(***************************************************************************)
\* number of add_channel calls explored
MaxAdds == 3

\* the raw names add_channel is called with
RawNames ==
  { <<"C", "C", "T", "V", "-", "1">>,
    <<"C", "C", "T", "V", " ", "1", " ", "u7EFC", "u5408">>,
    <<"c", "c", "t", "v", "1">>,
    <<"C", "C", "T", "V", "1">>,
    <<"C", "C", "T", "V", "0", "1">>,
    <<"C", "C", "T", "V", "1", " ", "H", "D">>,
    <<"u6E56", "u5357", "u536B", "u89C6">>,
    <<"u6E56", "u5357", "u7535", "u89C6", "u53F0">>,
    <<"u6E56", "u5357", "u53F0">>,
    <<"a", "b">>,
    <<"a">>,
    <<>>,
    <<"C", "C", "-", "T", "V", "1", " ", "H", "D">> }

InitManager ==
  /\ standard_to_aliases = <<>>
  /\ alias_to_standard = <<>>
  /\ added = <<>>
  /\ resolved = <<>>

\* no name is being cleaned
NormIdle ==
  /\ name_in = <<>>
  /\ name_display = <<>>
  /\ key_direct = <<>>
  /\ key_display = <<>>
  /\ norm_pc = "idle"

\* update_aliases is not running
RunIdle ==
  /\ run_pc = "idle"
  /\ source_urls = <<>>
  /\ url_pos = 0
  /\ attempt = 0
  /\ contents = <<>>
  /\ fetch_log = <<>>
  /\ src_pos = 0
  /\ pending = {}
  /\ disk = [exists |-> FALSE, lines |-> <<>>]
  /\ disk_before = [exists |-> FALSE, lines |-> <<>>]
  /\ writes_left = <<>>
  /\ save_called = FALSE
  /\ returned = "none"
  /\ exit_code = -1

\* no FreeTVProcessor is running
FreeTVIdle ==
  /\ ftv_pc = "idle"
  /\ ftv_version = "2.0"
  /\ rename_dic = <<>>
  /\ channel_lists = [channel_list |-> <<>>, cctv_list |-> <<>>,
                      ws_list |-> <<>>]
  /\ feed_pos = 0
  /\ freetv_lines = <<>>
  /\ categorized_channels = [cctv |-> <<>>, ws |-> <<>>, other |-> <<>>]
  /\ output_files =
       [complete_txt |-> <<>>, complete_m3u |-> <<>>, cctv_txt |-> <<>>,
        cctv_m3u |-> <<>>, ws_txt |-> <<>>, ws_m3u |-> <<>>,
        other_txt |-> <<>>, other_m3u |-> <<>>]

\* no function is being applied
FnIdle ==
  /\ fn_pc = "idle"
  /\ fn_arg = <<>>
  /\ fn_result = {}

Init == InitManager /\ NormIdle /\ RunIdle /\ FreeTVIdle /\ FnIdle

add_channel(channel_name) ==
  /\ Len(added) < MaxAdds
  /\ LET r == add_channel_result(standard_to_aliases, alias_to_standard,
                                 channel_name)
     IN  /\ standard_to_aliases' = r.s2a
         /\ alias_to_standard' = r.a2s
  /\ added' = Append(added, channel_name)
  /\ resolved' = Append(resolved, resolved_name(alias_to_standard, channel_name))
  /\ UNCHANGED <<norm_vars, run_vars, ftv_vars, fn_vars>>

Next == \E channel_name \in RawNames : add_channel(channel_name)

Spec == Init /\ [][Next]_vars


(***************************************************************************)
(* Claims about the alias table                                            *)
(***************************************************************************)
\* alias_to_standard maps alias to standard
owned_by(alias, standard) ==
  dict_has(alias_to_standard, alias) /\ dict_get(alias_to_standard, alias) = standard

\* C1: no alias string belongs to two different canonical channels at once:
\* the alias sets of two distinct keys of standard_to_aliases are disjoint.
C1_AliasSetsDisjoint ==
  \A S, T \in DOMAIN standard_to_aliases :
    S # T => standard_to_aliases[S] \cap standard_to_aliases[T] = {}

\* C2: a canonical name never appears as an alias of a different canonical
\* name, neither in its alias set nor in the alias index.
C2_CanonicalNotForeignAlias ==
  \A S, T \in DOMAIN standard_to_aliases :
    S # T => S \notin standard_to_aliases[T] /\ ~owned_by(S, T)

\* C3: every canonical name created is a key of the alias index and is mapped
\* to itself.
C3_CanonicalInAliasIndex ==
  \A S \in DOMAIN standard_to_aliases : owned_by(S, S)

\* the scenario of C4: three spellings of CCTV1
CCTV1Scenario ==
  << <<"C", "C", "T", "V", "-", "1">>, <<"C", "C", "T", "V", " ", "1", " ", "u7EFC", "u5408">>, <<"c", "c", "t", "v", "1">> >>

\* C4: from an empty table, adding "CCTV-1", "CCTV 1 <U+7EFC U+5408>", "cctv1"
\* in that order creates exactly the canonical channel CCTV1, and each of the
\* three names is an alias owned by CCTV1 or is the canonical name.
C4_CCTV1Scenario ==
  added = CCTV1Scenario =>
    /\ DOMAIN standard_to_aliases = {CCTV \o <<"1">>}
    /\ \A i \in DOMAIN CCTV1Scenario :
         \/ owned_by(CCTV1Scenario[i], CCTV \o <<"1">>)
         \/ CCTV1Scenario[i] = CCTV \o <<"1">>

C4_Witness ==
  added = CCTV1Scenario /\ Cardinality(DOMAIN standard_to_aliases) = 1

\* the scenario of C5: the Hunan satellite channel, then Hunan TV station
HunanWeiShi == <<"u6E56", "u5357", "u536B", "u89C6">>
HunanDianShiTai == <<"u6E56", "u5357", "u7535", "u89C6", "u53F0">>

\* C5: from an empty table, adding <Hunan>U+536B U+89C6 and then
\* <Hunan>U+7535 U+89C6 U+53F0 leaves the first as the only canonical channel
\* and both names resolve to it; the second is an exact key of the alias
\* index, put there as a base alias when the first name created the channel.
C5_HunanScenario ==
  added = <<HunanWeiShi, HunanDianShiTai>> =>
    /\ DOMAIN standard_to_aliases = {HunanWeiShi}
    /\ find_standard_name(alias_to_standard, HunanWeiShi)
         = [standard |-> HunanWeiShi, is_new |-> FALSE]
    /\ find_standard_name(alias_to_standard, HunanDianShiTai)
         = [standard |-> HunanWeiShi, is_new |-> FALSE]
    /\ alias_to_standard
         = add_channel_result(<<>>, <<>>, HunanWeiShi).a2s
    /\ owned_by(HunanDianShiTai, HunanWeiShi)

C5_Witness ==
  /\ added = <<HunanWeiShi, HunanDianShiTai>>
  /\ HunanDianShiTai \in standard_to_aliases[HunanWeiShi]


(***************************************************************************)
(* The two cleaning functions applied to one raw name                      *)
(***************************************************************************)
\* length of the raw names cleaned
MaxRawLen == 4

\* the characters the raw names are made of: parts of the quality tokens,
\* a separator, a space and a letter of no token
NormChars == {"H", "D", "4", "K", "d", " ", "-", "x"}

RECURSIVE strings_upto(_, _)
strings_upto(chars, n) ==
  IF n = 0 THEN {<<>>}
  ELSE LET shorter == strings_upto(chars, n - 1)
       IN  shorter \cup {Append(s, c) : s \in shorter, c \in chars}

InitNorm ==
  /\ InitManager
  /\ RunIdle
  /\ FreeTVIdle
  /\ FnIdle
  /\ name_in \in strings_upto(NormChars, MaxRawLen)
  /\ name_display = <<>>
  /\ key_direct = <<>>
  /\ key_display = <<>>
  /\ norm_pc = "raw"

\* name_display = clean_channel_name(name_in)
CleanForDisplay ==
  /\ norm_pc = "raw"
  /\ name_display' = clean_channel_name(name_in)
  /\ norm_pc' = "cleaned"
  /\ UNCHANGED <<mgr_vars, run_vars, ftv_vars, fn_vars, name_in, key_direct, key_display>>

\* the matching keys of the raw name and of its display form
CleanForMatching ==
  /\ norm_pc = "cleaned"
  /\ key_direct' = clean_for_matching(name_in)
  /\ key_display' = clean_for_matching(name_display)
  /\ norm_pc' = "keyed"
  /\ UNCHANGED <<mgr_vars, run_vars, ftv_vars, fn_vars, name_in, name_display>>

NextNorm == CleanForDisplay \/ CleanForMatching

SpecNorm == InitNorm /\ [][NextNorm]_vars

\* C8: the matching key of the display-cleaned name equals the matching key
\* of the raw name: clean_for_matching(clean_channel_name(n)) =
\* clean_for_matching(n) for every raw name n.
C8_IdempotentNormalization ==
  norm_pc = "keyed" => key_display = key_direct


(***************************************************************************)
(* Claims about the saved alias file                                       *)
(***************************************************************************)
\* the alias file save_aliases_to_file writes for the current table, read
\* back as the rename-rule loader reads its data file
reloaded_aliases ==
  load_rename_rules(
    load_data_file(written_lines(save_writes(standard_to_aliases))))

\* C7: saving the table and parsing the written lines back yields a mapping
\* with the key set of alias_to_standard and the same owner for every key.
C7_RoundTrip ==
  /\ dict_keys(reloaded_aliases) = dict_keys(alias_to_standard)
  /\ \A k \in dict_keys(alias_to_standard) :
       dict_has(reloaded_aliases, k)
         => dict_get(reloaded_aliases, k) = dict_get(alias_to_standard, k)


(***************************************************************************)
(* AdvancedChannelParser                                                   *)
(***************************************************************************)
starts_at(s, i, p) == i + Len(p) - 1 <= Len(s) /\ SubSeq(s, i, i + Len(p) - 1) = p

\* a match of <open>.*?<close> starts at index i of s
delimited_at(s, i, open, close) ==
  starts_at(s, i, open) /\ \E j \in (i + Len(open))..Len(s) : s[j] = close

\* re.sub(<open> + r'.*?' + <close>, '', s): each leftmost match runs from
\* the literal open to the nearest following character close
RECURSIVE remove_delimited(_, _, _)
remove_delimited(s, open, close) ==
  IF \E i \in 1..Len(s) : delimited_at(s, i, open, close)
    THEN LET i == CHOOSE i \in 1..Len(s) :
                    /\ delimited_at(s, i, open, close)
                    /\ \A k \in 1..(i - 1) : ~delimited_at(s, k, open, close)
             j == CHOOSE j \in (i + Len(open))..Len(s) :
                    /\ s[j] = close
                    /\ \A k \in (i + Len(open))..(j - 1) : s[k] # close
         IN  SubSeq(s, 1, i - 1)
               \o remove_delimited(SubSeq(s, j + 1, Len(s)), open, close)
    ELSE s

\* clean_patterns, each as its literal opening and its closing character
clean_patterns ==
  << [open |-> <<"[">>, close |-> "]"],
     [open |-> <<"(">>, close |-> ")"],
     [open |-> <<"u3010">>, close |-> "u3011"],
     [open |-> <<"#", "E", "X", "T", "I", "N", "F">>, close |-> ","],
     [open |-> <<"g", "r", "o", "u", "p", "-", "t", "i", "t", "l", "e", "=", "\"">>, close |-> "\""],
     [open |-> <<"t", "v", "g", "-", "n", "a", "m", "e", "=", "\"">>, close |-> "\""],
     [open |-> <<"t", "v", "g", "-", "i", "d", "=", "\"">>, close |-> "\""],
     [open |-> <<"t", "v", "g", "-", "l", "o", "g", "o", "=", "\"">>, close |-> "\""] >>

\* for pattern in self.clean_patterns: cleaned = re.sub(pattern, '', cleaned)
RECURSIVE remove_patterns(_, _)
remove_patterns(s, patterns) ==
  IF patterns = <<>> THEN s
  ELSE remove_patterns(
         remove_delimited(s, Head(patterns).open, Head(patterns).close),
         Tail(patterns))

\* the length of the scheme https?:// at index i of s when a character that
\* is not whitespace follows it, else 0
url_scheme_at(s, i) ==
  LET n == IF starts_at(s, i, <<"h", "t", "t", "p", "s", ":", "/", "/">>) THEN Len(<<"h", "t", "t", "p", "s", ":", "/", "/">>)
           ELSE IF starts_at(s, i, <<"h", "t", "t", "p", ":", "/", "/">>) THEN Len(<<"h", "t", "t", "p", ":", "/", "/">>) ELSE 0
  IN  IF n > 0 /\ i + n <= Len(s) /\ s[i + n] \notin Whitespace THEN n ELSE 0

\* re.sub(r'https?://[^\s]+', '', s)
RECURSIVE remove_urls(_)
remove_urls(s) ==
  IF \E i \in 1..Len(s) : url_scheme_at(s, i) > 0
    THEN LET i == CHOOSE i \in 1..Len(s) :
                    /\ url_scheme_at(s, i) > 0
                    /\ \A k \in 1..(i - 1) : url_scheme_at(s, k) = 0
             e == skip_chars(s, i, CharsOf(s) \ Whitespace)
         IN  SubSeq(s, 1, i - 1) \o remove_urls(SubSeq(s, e, Len(s)))
    ELSE s

\* re.sub(r'^[,\s]+|[,\s]+$', '', s)
strip_separators(s) ==
  SubSeq(s, skip_chars(s, 1, {","} \cup Whitespace),
            skip_chars_back(s, Len(s), {","} \cup Whitespace))

\* AdvancedChannelParser.clean_channel_name
parser_clean_channel_name(name) ==
  strip_separators(strip(collapse_whitespace(
    remove_urls(remove_patterns(name, clean_patterns)))))

\* re.search(r'#EXTINF:.*?,(.+)', line): group(1), <<>> when no match; the
\* match starts at the first "#EXTINF:" that a comma with text behind it
\* follows, and the group is all that follows the nearest such comma
extinf_at(line, i) ==
  /\ starts_at(line, i, <<"#", "E", "X", "T", "I", "N", "F", ":">>)
  /\ \E j \in (i + Len(<<"#", "E", "X", "T", "I", "N", "F", ":">>))..(Len(line) - 1) : line[j] = ","

extinf_name(line) ==
  IF \E i \in 1..Len(line) : extinf_at(line, i)
    THEN LET i == CHOOSE i \in 1..Len(line) :
                    extinf_at(line, i) /\ \A k \in 1..(i - 1) : ~extinf_at(line, k)
             j == CHOOSE j \in (i + Len(<<"#", "E", "X", "T", "I", "N", "F", ":">>))..(Len(line) - 1) :
                    /\ line[j] = ","
                    /\ \A k \in (i + Len(<<"#", "E", "X", "T", "I", "N", "F", ":">>))..(j - 1) : line[k] # ","
         IN  SubSeq(line, j + 1, Len(line))
    ELSE <<>>

\* AdvancedChannelParser.extract_channel_name
extract_channel_name(line) ==
  IF startswith(line, <<"#", "E", "X", "T", "I", "N", "F">>) /\ extinf_name(line) # <<>>
    THEN parser_clean_channel_name(extinf_name(line))
  ELSE IF contains(line, <<",">>) /\ (contains(line, <<"h", "t", "t", "p", ":", "/", "/">>) \/ contains(line, <<"h", "t", "t", "p", "s", ":", "/", "/">>))
    THEN parser_clean_channel_name(Head(split(line, ",")))
  ELSE parser_clean_channel_name(line)

\* the channel name one line of a source contributes, <<>> when none
line_channel(raw_line) ==
  LET line == strip(raw_line)
  IN  IF line = <<>> \/ startswith(line, <<"#">>) THEN <<>>
      ELSE IF Len(extract_channel_name(line)) > 1
        THEN extract_channel_name(line)
        ELSE <<>>

\* AdvancedChannelParser.parse_channels_from_content: the names of
\* list(set(channels)); the list holds them in an order of Python's choosing
parse_channels_from_content(content) ==
  {line_channel(l) : l \in Range(split(content, "\n"))} \ {<<>>}


(***************************************************************************)
(* AutoAliasUpdater.update_aliases and main: one run of the program        *)
(***************************************************************************)
\* number of subscription URLs of a run
MaxSources == 2

\* LiveSourceFetcher.max_retries
max_retries == 2

\* the texts a source answers with: an empty body, an M3U playlist and three
\* name,url lists
EmptyBody == <<>>
M3UBody ==
  <<
     "#", "E", "X", "T", "M", "3", "U", "\n", "#", "E", "X", "T", "I", "N",
     "F", ":", "-", "1", ",", "C", "C", "T", "V", "1", "\n", "h", "t", "t",
     "p", ":", "/", "/", "a", "/", "1" >>
TxtBodyA ==
  <<
     "C", "C", "T", "V", "-", "1", ",", "h", "t", "t", "p", ":", "/", "/",
     "a", "/", "1", "\n", "u6E56", "u5357", "u536B", "u89C6", ",", "h", "t",
     "t", "p", ":", "/", "/", "a", "/", "2" >>
TxtBodyB ==
  <<
     "C", "C", "T", "V", "0", "1", ",", "h", "t", "t", "p", ":", "/", "/",
     "b", "/", "1", "\n", "c", "c", "t", "v", "1", ",", "h", "t", "t", "p",
     ":", "/", "/", "b", "/", "2" >>
TxtBodyC ==
  <<
     "a", "b", ",", "h", "t", "t", "p", ":", "/", "/", "c", "/", "1", "\n",
     "C", "C", "T", "V", "5", "+", ",", "h", "t", "t", "p", ":", "/", "/",
     "c", "/", "2" >>
Bodies == {EmptyBody, M3UBody, TxtBodyA, TxtBodyB, TxtBodyC}

\* the alias file a previous run left
OldAliasFile ==
  [exists |-> TRUE, lines |-> << CCTVHeader, <<"C", "C", "T", "V", "9", ",", "C", "C", "T", "V", "-", "9">> >>]
NoAliasFile == [exists |-> FALSE, lines |-> <<>>]

\* a test that lets an empty table through
should_save_any_count(current_count) == current_count >= 0

\* current_count > 0
should_save(current_count) == current_count > 0

InitRun ==
  /\ InitManager
  /\ NormIdle
  /\ FreeTVIdle
  /\ FnIdle
  /\ run_pc = "load"
  /\ \E n \in 0..MaxSources : source_urls = [i \in 1..n |-> i]
  /\ url_pos = 0
  /\ attempt = 0
  /\ contents = <<>>
  /\ fetch_log = <<>>
  /\ src_pos = 0
  /\ pending = {}
  /\ disk \in {NoAliasFile, OldAliasFile}
  /\ disk_before = disk
  /\ writes_left = <<>>
  /\ save_called = FALSE
  /\ returned = "none"
  /\ exit_code = -1

\* return value and sys.exit(0 if success else 1)
finish(value) ==
  /\ returned' = value
  /\ exit_code' = IF value = "True" THEN 0 ELSE 1
  /\ run_pc' = "exit"

\* lines 316-319: no URL, return False; else start fetching
load_subscription_sources ==
  /\ run_pc = "load"
  /\ IF source_urls = <<>>
       THEN finish("False") /\ UNCHANGED <<url_pos, attempt>>
       ELSE /\ run_pc' = "fetch"
            /\ url_pos' = 1
            /\ attempt' = 0
            /\ UNCHANGED <<returned, exit_code>>
  /\ UNCHANGED <<mgr_vars, norm_vars, ftv_vars, fn_vars, fetch_log, source_urls, contents, src_pos, pending,
                 disk, disk_before, writes_left, save_called>>

fetching ==
  run_pc = "fetch" /\ url_pos <= Len(source_urls) /\ attempt < max_retries

\* lines 53-57: HTTP 200, the text is stored under the URL's key; break
fetch_ok(text) ==
  /\ fetching
  /\ contents' = dict_set(contents, source_urls[url_pos], text)
  /\ fetch_log' = Append(fetch_log, [url |-> source_urls[url_pos],
                                      ok |-> TRUE, text |-> text])
  /\ url_pos' = url_pos + 1
  /\ attempt' = 0
  /\ UNCHANGED <<mgr_vars, norm_vars, ftv_vars, fn_vars, run_pc, source_urls, src_pos, pending,
                 disk, disk_before, writes_left, save_called, returned,
                 exit_code>>

\* the next attempt for the URL, or no URL at all after the last attempt
retry_giving_up ==
  /\ IF attempt + 1 < max_retries
       THEN attempt' = attempt + 1 /\ UNCHANGED url_pos
       ELSE attempt' = 0 /\ url_pos' = Len(source_urls) + 1
  /\ fetch_log' = Append(fetch_log, [url |-> source_urls[url_pos],
                                      ok |-> FALSE, text |-> <<>>])
  /\ UNCHANGED <<mgr_vars, norm_vars, ftv_vars, fn_vars, run_pc, source_urls, contents, src_pos,
                 pending, disk, disk_before, writes_left, save_called,
                 returned, exit_code>>

\* the next attempt for the URL, or the next URL after the last attempt
retry ==
  /\ IF attempt + 1 < max_retries
       THEN attempt' = attempt + 1 /\ UNCHANGED url_pos
       ELSE attempt' = 0 /\ url_pos' = url_pos + 1
  /\ fetch_log' = Append(fetch_log, [url |-> source_urls[url_pos],
                                      ok |-> FALSE, text |-> <<>>])
  /\ UNCHANGED <<mgr_vars, norm_vars, ftv_vars, fn_vars, run_pc, source_urls, contents, src_pos,
                 pending, disk, disk_before, writes_left, save_called,
                 returned, exit_code>>

\* lines 58-59, 66: another status code
fetch_http_error == fetching /\ retry

\* lines 61-66: session.get raised
fetch_exception == fetching /\ retry

\* lines 68, 321-324: every URL was tried
fetch_done ==
  /\ run_pc = "fetch"
  /\ url_pos > Len(source_urls)
  /\ IF contents = <<>>
       THEN finish("False") /\ UNCHANGED src_pos
       ELSE /\ run_pc' = "process"
            /\ src_pos' = 1
            /\ UNCHANGED <<returned, exit_code>>
  /\ UNCHANGED <<mgr_vars, norm_vars, ftv_vars, fn_vars, fetch_log, source_urls, url_pos, attempt, contents,
                 pending, disk, disk_before, writes_left, save_called>>

\* lines 329-334: the next source; its channels when its text is not blank
process_source ==
  /\ run_pc = "process"
  /\ pending = {}
  /\ src_pos <= Len(contents)
  /\ pending' = IF strip(contents[src_pos][2]) # <<>>
                  THEN parse_channels_from_content(contents[src_pos][2])
                  ELSE {}
  /\ src_pos' = src_pos + 1
  /\ UNCHANGED <<mgr_vars, norm_vars, ftv_vars, fn_vars, fetch_log, run_pc, source_urls, url_pos, attempt,
                 contents, disk, disk_before, writes_left, save_called,
                 returned, exit_code>>

\* lines 336-337: the next channel of the list, in the order of list(set(...))
process_channel(channel) ==
  /\ run_pc = "process"
  /\ channel \in pending
  /\ pending' = pending \ {channel}
  /\ LET r == add_channel_result(standard_to_aliases, alias_to_standard,
                                 channel)
     IN  /\ standard_to_aliases' = r.s2a
         /\ alias_to_standard' = r.a2s
  /\ added' = Append(added, channel)
  /\ resolved' = Append(resolved, resolved_name(alias_to_standard, channel))
  /\ UNCHANGED <<norm_vars, ftv_vars, fn_vars, fetch_log, run_pc, source_urls, url_pos, attempt, contents,
                 src_pos, disk, disk_before, writes_left, save_called,
                 returned, exit_code>>

\* lines 339-351: save when there is a canonical channel, else return False
count_channels ==
  /\ run_pc = "process"
  /\ pending = {}
  /\ src_pos > Len(contents)
  /\ IF should_save(Cardinality(DOMAIN standard_to_aliases))
       THEN /\ save_called' = TRUE
            /\ run_pc' = "makedirs"
            /\ UNCHANGED <<returned, exit_code>>
       ELSE finish("False") /\ UNCHANGED save_called
  /\ UNCHANGED <<mgr_vars, norm_vars, ftv_vars, fn_vars, fetch_log, source_urls, url_pos, attempt, contents,
                 src_pos, pending, disk, disk_before, writes_left>>

\* line 234: os.makedirs(..., exist_ok=True)
save_makedirs ==
  /\ run_pc = "makedirs"
  /\ run_pc' = "open"
  /\ UNCHANGED <<mgr_vars, norm_vars, ftv_vars, fn_vars, fetch_log, source_urls, url_pos, attempt, contents,
                 src_pos, pending, disk, disk_before, writes_left,
                 save_called, returned, exit_code>>

\* line 250: open(output_path, 'w') creates the file or cuts it to nothing
save_open ==
  /\ run_pc = "open"
  /\ disk' = [exists |-> TRUE, lines |-> <<>>]
  /\ writes_left' = save_writes(standard_to_aliases)
  /\ run_pc' = "write"
  /\ UNCHANGED <<mgr_vars, norm_vars, ftv_vars, fn_vars, fetch_log, source_urls, url_pos, attempt, contents,
                 src_pos, pending, disk_before, save_called, returned,
                 exit_code>>

\* lines 251-274: one f.write
save_write ==
  /\ run_pc = "write"
  /\ writes_left # <<>>
  /\ disk' = [exists |-> TRUE, lines |-> disk.lines \o Head(writes_left)]
  /\ writes_left' = Tail(writes_left)
  /\ UNCHANGED <<mgr_vars, norm_vars, ftv_vars, fn_vars, fetch_log, run_pc, source_urls, url_pos, attempt,
                 contents, src_pos, pending, disk_before, save_called,
                 returned, exit_code>>

\* lines 275-276, 348: the file is closed; return True
save_close ==
  /\ run_pc = "write"
  /\ writes_left = <<>>
  /\ finish("True")
  /\ UNCHANGED <<mgr_vars, norm_vars, ftv_vars, fn_vars, fetch_log, source_urls, url_pos, attempt, contents,
                 src_pos, pending, disk, disk_before, writes_left,
                 save_called>>

\* makedirs, open, a write or the close raises OSError: nothing catches it in
\* save_aliases_to_file, update_aliases or main, and the process ends with
\* a traceback and exit status 1
save_io_error ==
  /\ run_pc \in {"makedirs", "open", "write"}
  /\ finish("raised")
  /\ UNCHANGED <<mgr_vars, norm_vars, ftv_vars, fn_vars, fetch_log, source_urls, url_pos, attempt, contents,
                 src_pos, pending, disk, disk_before, writes_left,
                 save_called>>

NextRun ==
  \/ load_subscription_sources
  \/ \E text \in Bodies : fetch_ok(text)
  \/ fetch_http_error
  \/ fetch_exception
  \/ fetch_done
  \/ process_source
  \/ \E channel \in pending : process_channel(channel)
  \/ count_channels
  \/ save_makedirs
  \/ save_open
  \/ save_write
  \/ save_close
  \/ save_io_error

SpecRun == InitRun /\ [][NextRun]_vars

\* update_aliases up to the return of fetch_live_sources
NextFetch ==
  \/ load_subscription_sources
  \/ \E text \in Bodies : fetch_ok(text)
  \/ fetch_http_error
  \/ fetch_exception
  \/ fetch_done

\* the loops go on while they have a step to take: session.get answers or
\* raises within its timeout, and no step waits for another process
SpecFetch == InitRun /\ [][NextFetch]_vars /\ WF_vars(NextFetch)

\* C9: when an I/O error ends save_aliases_to_file, the alias file that was
\* on disk before the run still has its previous content, and the run ends
\* with a failure status
C9_FailedSaveKeepsOldFile ==
  (returned = "raised" /\ disk_before.exists)
    => (disk = disk_before /\ exit_code # 0)

\* C10: a run with no fetched content or with zero canonical channels returns
\* False with exit status 1, never calls save_aliases_to_file and leaves the
\* alias file as it was; save_aliases_to_file is called, and the file
\* changed, only with at least one canonical channel in the table
C10_EmptyRunFailsWithoutSaving ==
  /\ save_called => Cardinality(DOMAIN standard_to_aliases) > 0
  /\ disk # disk_before => save_called
  /\ (run_pc = "exit" /\ (contents = <<>> \/ DOMAIN standard_to_aliases = {}))
       => /\ returned = "False"
          /\ exit_code = 1
          /\ ~save_called
          /\ disk = disk_before

\* a finished run whose only content was a playlist that yields no channel
C10_Witness ==
  /\ run_pc = "exit"
  /\ \E i \in 1..Len(contents) : contents[i][2] = M3UBody
  /\ DOMAIN standard_to_aliases = {}
  /\ returned = "False"
  /\ exit_code = 1


(***************************************************************************)
(* FreeTVProcessor: the playlist pipeline of freetv1.0.py and freetv2.0.py *)
(* (the definitions of freetv1.0.py end in _v1, those of freetv2.0.py that *)
(* share a name with them end in _v2)                                      *)
(***************************************************************************)
\* the position of the first and of the last c in s, 0 when there is none
\* (s.find(c) + 1, s.rfind(c) + 1)
find(s, c) ==
  IF \E i \in DOMAIN s : s[i] = c
    THEN CHOOSE i \in DOMAIN s : s[i] = c /\ \A j \in 1..(i - 1) : s[j] # c
    ELSE 0
rfind(s, c) ==
  IF \E i \in DOMAIN s : s[i] = c
    THEN CHOOSE i \in DOMAIN s : s[i] = c /\ \A j \in (i + 1)..Len(s) : s[j] # c
    ELSE 0

\* a, b = s.split(c, 1) for an s that holds c
split_once(s, c) ==
  <<SubSeq(s, 1, find(s, c) - 1), SubSeq(s, find(s, c) + 1, Len(s))>>

GenreMark == <<"#", "g", "e", "n", "r", "e", "#">>
SchemeMark == <<":", "/", "/">>

\* freetv1.0.py: [line.strip() for line in file if line.strip()]
nonblank(line) == strip(line) # <<>>
read_txt_to_array(file_lines) ==
  LET kept == SelectSeq(file_lines, nonblank)
  IN  [i \in DOMAIN kept |-> strip(kept[i])]

\* freetv1.0.py load_modify_name over the lines of the rules file: the names
\* of a line are its parts after the first, as they are
load_modify_name(file_lines) ==
  assign_corrections(
    [i \in DOMAIN file_lines |->
       LET parts == split(strip(file_lines[i]), ",")
       IN  IF Len(parts) >= 2
             THEN [correct |-> parts[1], names |-> Tail(parts)]
             ELSE [correct |-> <<>>, names |-> <<>>]])

\* freetv1.0.py: "#genre#" not in line and "," in line and "://" in line
channel_line_test(line) ==
  /\ ~contains(line, GenreMark)
  /\ contains(line, <<",">>)
  /\ contains(line, SchemeMark)

\* freetv1.0.py process_channel_line: the line gets "$" and its name as a
\* suffix and is appended to freetv_lines
process_channel_line_v1(lines, line) ==
  IF channel_line_test(line)
    THEN LET channel_name == split_once(line, ",")[1]
             channel_address ==
               split_once(line, ",")[2] \o <<"$">>
                 \o replace(strip(channel_name), <<" ">>, <<"_">>)
         IN  Append(lines, strip(channel_name \o <<",">> \o channel_address))
    ELSE lines

\* freetv1.0.py process_url, the loop over the lines of the fetched text
RECURSIVE process_url_v1(_, _, _)
process_url_v1(lines, text_lines, freetv_dictionary) ==
  IF text_lines = <<>> THEN lines
  ELSE LET line == Head(text_lines)
           listed == /\ channel_line_test(line)
                     /\ split_once(line, ",")[1] \in Range(freetv_dictionary)
       IN  process_url_v1(
             IF listed THEN process_channel_line_v1(lines, line) ELSE lines,
             Tail(text_lines), freetv_dictionary)

\* freetv1.0.py clean_url: cut at the last "$"
clean_url_v1(url) ==
  IF rfind(url, "$") # 0 THEN SubSeq(url, 1, rfind(url, "$") - 1) ELSE url

\* freetv1.0.py rename_channel: lines without a comma are dropped
RECURSIVE rename_channel_v1(_, _)
rename_channel_v1(data, dic) ==
  IF data = <<>> THEN <<>>
  ELSE LET line == Head(data)
           name == split_once(line, ",")[1]
           url == split_once(line, ",")[2]
           renamed == IF dict_has(dic, name) /\ name # dict_get(dic, name)
                        THEN dict_get(dic, name) ELSE name
       IN  (IF contains(line, <<",">>)
              THEN <<renamed \o <<",">> \o url>> ELSE <<>>)
             \o rename_channel_v1(Tail(data), dic)

\* the three category lists, empty
NoCategories == [cctv |-> <<>>, ws |-> <<>>, other |-> <<>>]

\* freetv1.0.py categorize_channels over the renamed lines
RECURSIVE categorize_channels_v1(_, _, _)
categorize_channels_v1(cat, renamed, lists) ==
  IF renamed = <<>> THEN cat
  ELSE LET line == Head(renamed)
           channel_name == strip(split(line, ",")[1])
           channel_address == clean_url_v1(strip(split(line, ",")[2]))
           clean_line == strip(channel_name \o <<",">> \o channel_address)
           next ==
             IF ~channel_line_test(line) THEN cat
             ELSE IF channel_name \in Range(lists.cctv_list)
               THEN [cat EXCEPT !.cctv = Append(@, clean_line)]
             ELSE IF channel_name \in Range(lists.ws_list)
               THEN [cat EXCEPT !.ws = Append(@, clean_line)]
             ELSE [cat EXCEPT !.other = Append(@, clean_line)]
       IN  categorize_channels_v1(next, Tail(renamed), lists)

ExtM3U == <<"#", "E", "X", "T", "M", "3", "U">>
ExtInf == <<"#", "E", "X", "T", "I", "N", "F", ":", "-", "1", ",">>

\* freetv1.0.py generate_m3u: the lines written after "#EXTM3U"
RECURSIVE m3u_entries_v1(_)
m3u_entries_v1(channels) ==
  IF channels = <<>> THEN <<>>
  ELSE LET line == Head(channels)
       IN  (IF contains(line, <<",">>)
              THEN <<ExtInf \o split_once(line, ",")[1],
                     clean_url_v1(split_once(line, ",")[2])>>
              ELSE <<>>)
             \o m3u_entries_v1(Tail(channels))
generate_m3u_v1(channels) == <<ExtM3U>> \o m3u_entries_v1(channels)

\* the first lines of a text playlist: the update genre, the version line
\* (the time of the run and ",url"), an empty line and the genre of the list
UpdateGenre == <<"u66F4", "u65B0", "u65F6", "u95F4", ",", "#", "g", "e", "n", "r", "e", "#">>
VersionLine == <<"2", "0", "2", "5", "0", "1", "0", "1", " ", "0", "8", ":", "0", "0", ":", "0", "0", ",", "u", "r", "l">>
list_header(genre) ==
  <<UpdateGenre, VersionLine, <<>>, genre \o <<",">> \o GenreMark>>

\* no file was written
NoOutput ==
  [complete_txt |-> <<>>, complete_m3u |-> <<>>, cctv_txt |-> <<>>,
   cctv_m3u |-> <<>>, ws_txt |-> <<>>, ws_m3u |-> <<>>, other_txt |-> <<>>,
   other_m3u |-> <<>>]

\* freetv1.0.py generate_output_files and save_categorized_files: the lines
\* of the eight files; a category without lines gets no file
generate_output_files_v1(lines, dic, cat) ==
  LET freetv_lines_renamed == rename_channel_v1(lines, dic)
  IN  [complete_txt |-> list_header(<<"f", "r", "e", "e", "t", "v">>)
                          \o sorted(Range(freetv_lines_renamed)),
       complete_m3u |-> generate_m3u_v1(freetv_lines_renamed),
       cctv_txt |-> IF cat.cctv = <<>> THEN <<>>
                    ELSE list_header(<<"f", "r", "e", "e", "t", "v", "_", "c", "c", "t", "v">>) \o sorted(Range(cat.cctv)),
       cctv_m3u |-> IF cat.cctv = <<>> THEN <<>> ELSE generate_m3u_v1(cat.cctv),
       ws_txt |-> IF cat.ws = <<>> THEN <<>>
                  ELSE list_header(<<"f", "r", "e", "e", "t", "v", "_", "w", "s">>) \o sorted(Range(cat.ws)),
       ws_m3u |-> IF cat.ws = <<>> THEN <<>> ELSE generate_m3u_v1(cat.ws),
       other_txt |-> IF cat.other = <<>> THEN <<>>
                     ELSE list_header(<<"f", "r", "e", "e", "t", "v", "_", "o", "t", "h", "e", "r">>)
                            \o sorted(Range(cat.other)),
       other_m3u |-> IF cat.other = <<>> THEN <<>>
                     ELSE generate_m3u_v1(cat.other)]

\* freetv2.0.py is_valid_channel_line
is_valid_channel_line(raw_line) ==
  LET line == strip(raw_line)
  IN  /\ line # <<>>
      /\ ~contains(line, GenreMark)
      /\ contains(line, <<",">>)
      /\ contains(line, SchemeMark)
      /\ ~startswith(line, <<"#">>)

\* freetv2.0.py process_channel_line
process_channel_line_v2(lines, line) ==
  IF is_valid_channel_line(line)
    THEN LET channel_name == split_once(line, ",")[1]
             channel_address == split_once(line, ",")[2]
             channel_suffix == replace(strip(channel_name), <<" ">>, <<"_">>)
         IN  Append(lines, strip(channel_name \o <<",">> \o channel_address
                                   \o <<"$">> \o channel_suffix))
    ELSE lines

\* freetv2.0.py process_url, the loop over the lines of the fetched text
RECURSIVE process_url_v2(_, _, _)
process_url_v2(lines, text_lines, channel_list) ==
  IF text_lines = <<>> THEN lines
  ELSE LET line == Head(text_lines)
           listed == /\ is_valid_channel_line(line)
                     /\ strip(split(line, ",")[1]) \in Range(channel_list)
       IN  process_url_v2(
             IF listed THEN process_channel_line_v2(lines, line) ELSE lines,
             Tail(text_lines), channel_list)

\* freetv2.0.py clean_url: url.split('$')[0]
clean_url_v2(url) == split(url, "$")[1]

\* freetv2.0.py rename_channel: other lines are kept as they are
RECURSIVE rename_channel_v2(_, _)
rename_channel_v2(data, dic) ==
  IF data = <<>> THEN <<>>
  ELSE LET line == Head(data)
           name == split_once(line, ",")[1]
           url == split_once(line, ",")[2]
           original_name == strip(name)
           renamed == IF dict_has(dic, original_name)
                        THEN dict_get(dic, original_name) ELSE name
       IN  (IF contains(line, <<",">>) /\ ~contains(line, GenreMark)
              THEN <<renamed \o <<",">> \o url>> ELSE <<line>>)
             \o rename_channel_v2(Tail(data), dic)

\* freetv2.0.py categorize_channels over the renamed lines
RECURSIVE categorize_channels_v2(_, _, _)
categorize_channels_v2(cat, renamed, lists) ==
  IF renamed = <<>> THEN cat
  ELSE LET line == Head(renamed)
           channel_name == split_once(line, ",")[1]
           clean_address == clean_url_v2(strip(split_once(line, ",")[2]))
           clean_line == channel_name \o <<",">> \o clean_address
           next ==
             IF ~is_valid_channel_line(line) THEN cat
             ELSE IF channel_name \in Range(lists.cctv_list)
               THEN [cat EXCEPT !.cctv = Append(@, clean_line)]
             ELSE IF channel_name \in Range(lists.ws_list)
               THEN [cat EXCEPT !.ws = Append(@, clean_line)]
             ELSE [cat EXCEPT !.other = Append(@, clean_line)]
       IN  categorize_channels_v2(next, Tail(renamed), lists)

\* freetv2.0.py remove_duplicates: the first line of every name
RECURSIVE remove_duplicates_from(_, _)
remove_duplicates_from(seen, channels) ==
  IF channels = <<>> THEN <<>>
  ELSE LET channel == Head(channels)
           name == split(channel, ",")[1]
       IN  IF name \notin seen
             THEN <<channel>> \o remove_duplicates_from(seen \cup {name},
                                                        Tail(channels))
             ELSE remove_duplicates_from(seen, Tail(channels))
remove_duplicates(channels) == remove_duplicates_from({}, channels)

\* freetv2.0.py generate_m3u: the lines written after "#EXTM3U"
RECURSIVE m3u_entries_v2(_)
m3u_entries_v2(channels) ==
  IF channels = <<>> THEN <<>>
  ELSE LET line == Head(channels)
       IN  (IF contains(line, <<",">>)
              THEN <<ExtInf \o split_once(line, ",")[1],
                     clean_url_v2(split_once(line, ",")[2])>>
              ELSE <<>>)
             \o m3u_entries_v2(Tail(channels))
generate_m3u_v2(channels) == <<ExtM3U>> \o m3u_entries_v2(channels)

\* freetv2.0.py generate_output_files and save_categorized_files
generate_output_files_v2(lines, dic, cat) ==
  LET unique_channels == remove_duplicates(rename_channel_v2(lines, dic))
      unique_cctv == remove_duplicates(cat.cctv)
      unique_ws == remove_duplicates(cat.ws)
      unique_other == remove_duplicates(cat.other)
  IN  [complete_txt |-> list_header(<<"f", "r", "e", "e", "t", "v">>)
                          \o sorted(Range(unique_channels)),
       complete_m3u |-> generate_m3u_v2(unique_channels),
       cctv_txt |-> IF cat.cctv = <<>> THEN <<>>
                    ELSE list_header(<<"f", "r", "e", "e", "t", "v", "_", "c", "c", "t", "v">>)
                           \o sorted(Range(unique_cctv)),
       cctv_m3u |-> IF cat.cctv = <<>> THEN <<>>
                    ELSE generate_m3u_v2(unique_cctv),
       ws_txt |-> IF cat.ws = <<>> THEN <<>>
                  ELSE list_header(<<"f", "r", "e", "e", "t", "v", "_", "w", "s">>) \o sorted(Range(unique_ws)),
       ws_m3u |-> IF cat.ws = <<>> THEN <<>> ELSE generate_m3u_v2(unique_ws),
       other_txt |-> IF cat.other = <<>> THEN <<>>
                     ELSE list_header(<<"f", "r", "e", "e", "t", "v", "_", "o", "t", "h", "e", "r">>)
                            \o sorted(Range(unique_other)),
       other_m3u |-> IF cat.other = <<>> THEN <<>>
                     ELSE generate_m3u_v2(unique_other)]

\* freetv2.0.py get_default_data: the built-in data used for a missing file
DefaultRenameRules ==
  << <<"C", "C", "T", "V", "1", ",", "C", "C", "T", "V", "-", "1", ",", "u592E", "u89C6", "u4E00", "u5957", ",", "u4E2D", "u592E", "u4E00", "u5957">>,
     <<"C", "C", "T", "V", "2", ",", "C", "C", "T", "V", "-", "2", ",", "u592E", "u89C6", "u4E8C", "u5957", ",", "u4E2D", "u592E", "u4E8C", "u5957">>,
     <<"C", "C", "T", "V", "3", ",", "C", "C", "T", "V", "-", "3", ",", "u592E", "u89C6", "u4E09", "u5957", ",", "u4E2D", "u592E", "u4E09", "u5957">>,
     <<"C", "C", "T", "V", "4", ",", "C", "C", "T", "V", "-", "4", ",", "u592E", "u89C6", "u56DB", "u5957", ",", "u4E2D", "u592E", "u56DB", "u5957">>,
     <<"C", "C", "T", "V", "5", ",", "C", "C", "T", "V", "-", "5", ",", "u592E", "u89C6", "u4E94", "u5957", ",", "u4E2D", "u592E", "u4E94", "u5957">>,
     <<"C", "C", "T", "V", "6", ",", "C", "C", "T", "V", "-", "6", ",", "u592E", "u89C6", "u516D", "u5957", ",", "u4E2D", "u592E", "u516D", "u5957">>,
     <<"C", "C", "T", "V", "7", ",", "C", "C", "T", "V", "-", "7", ",", "u592E", "u89C6", "u4E03", "u5957", ",", "u4E2D", "u592E", "u4E03", "u5957">>,
     <<"C", "C", "T", "V", "8", ",", "C", "C", "T", "V", "-", "8", ",", "u592E", "u89C6", "u516B", "u5957", ",", "u4E2D", "u592E", "u516B", "u5957">>,
     <<"C", "C", "T", "V", "9", ",", "C", "C", "T", "V", "-", "9", ",", "u592E", "u89C6", "u4E5D", "u5957", ",", "u4E2D", "u592E", "u4E5D", "u5957">>,
     <<"C", "C", "T", "V", "1", "0", ",", "C", "C", "T", "V", "-", "1", "0", ",", "u592E", "u89C6", "u5341", "u5957", ",", "u4E2D", "u592E", "u5341", "u5957">>,
     <<"C", "C", "T", "V", "1", "1", ",", "C", "C", "T", "V", "-", "1", "1", ",", "u592E", "u89C6", "u5341", "u4E00", "u5957", ",", "u4E2D", "u592E", "u5341", "u4E00", "u5957">>,
     <<"C", "C", "T", "V", "1", "2", ",", "C", "C", "T", "V", "-", "1", "2", ",", "u592E", "u89C6", "u5341", "u4E8C", "u5957", ",", "u4E2D", "u592E", "u5341", "u4E8C", "u5957">>,
     <<"C", "C", "T", "V", "1", "3", ",", "C", "C", "T", "V", "-", "1", "3", ",", "u592E", "u89C6", "u5341", "u4E09", "u5957", ",", "u4E2D", "u592E", "u5341", "u4E09", "u5957">>,
     <<"C", "C", "T", "V", "1", "4", ",", "C", "C", "T", "V", "-", "1", "4", ",", "u592E", "u89C6", "u5341", "u56DB", "u5957", ",", "u4E2D", "u592E", "u5341", "u56DB", "u5957">>,
     <<"C", "C", "T", "V", "1", "5", ",", "C", "C", "T", "V", "-", "1", "5", ",", "u592E", "u89C6", "u5341", "u4E94", "u5957", ",", "u4E2D", "u592E", "u5341", "u4E94", "u5957">>,
     <<"C", "C", "T", "V", "1", "6", ",", "C", "C", "T", "V", "-", "1", "6", ",", "u592E", "u89C6", "u5341", "u516D", "u5957", ",", "u4E2D", "u592E", "u5341", "u516D", "u5957">>,
     <<"C", "C", "T", "V", "1", "7", ",", "C", "C", "T", "V", "-", "1", "7", ",", "u592E", "u89C6", "u5341", "u4E03", "u5957", ",", "u4E2D", "u592E", "u5341", "u4E03", "u5957">>,
     <<"u6E56", "u5357", "u536B", "u89C6", ",", "u6E56", "u5357", "u53F0", ",", "H", "N", "T", "V">>,
     <<"u6D59", "u6C5F", "u536B", "u89C6", ",", "Z", "J", "T", "V", ",", "u6D59", "u6C5F", "u53F0">>,
     <<"u6C5F", "u82CF", "u536B", "u89C6", ",", "J", "S", "C", "T", "V", ",", "u6C5F", "u82CF", "u53F0">>,
     <<"u4E1C", "u65B9", "u536B", "u89C6", ",", "D", "F", "T", "V", ",", "u4E0A", "u6D77", "u536B", "u89C6">>,
     <<"u5317", "u4EAC", "u536B", "u89C6", ",", "B", "T", "V", ",", "u5317", "u4EAC", "u53F0">>,
     <<"u5929", "u6D25", "u536B", "u89C6", ",", "T", "J", "T", "V", ",", "u5929", "u6D25", "u53F0">>,
     <<"u5C71", "u4E1C", "u536B", "u89C6", ",", "S", "D", "T", "V", ",", "u5C71", "u4E1C", "u53F0">>,
     <<"u5B89", "u5FBD", "u536B", "u89C6", ",", "A", "H", "T", "V", ",", "u5B89", "u5FBD", "u53F0">>,
     <<"u5E7F", "u4E1C", "u536B", "u89C6", ",", "G", "D", "T", "V", ",", "u5E7F", "u4E1C", "u53F0">>,
     <<"u6DF1", "u5733", "u536B", "u89C6", ",", "S", "Z", "T", "V", ",", "u6DF1", "u5733", "u53F0">>,
     <<"u9ED1", "u9F99", "u6C5F", "u536B", "u89C6", ",", "H", "L", "J", "T", "V", ",", "u9ED1", "u9F99", "u6C5F", "u53F0">>,
     <<"u5409", "u6797", "u536B", "u89C6", ",", "J", "L", "T", "V", ",", "u5409", "u6797", "u53F0">>,
     <<"u8FBD", "u5B81", "u536B", "u89C6", ",", "L", "N", "T", "V", ",", "u8FBD", "u5B81", "u53F0">>,
     <<"u56DB", "u5DDD", "u536B", "u89C6", ",", "S", "C", "T", "V", ",", "u56DB", "u5DDD", "u53F0">>,
     <<"u91CD", "u5E86", "u536B", "u89C6", ",", "C", "Q", "T", "V", ",", "u91CD", "u5E86", "u53F0">>,
     <<"u6E56", "u5317", "u536B", "u89C6", ",", "H", "U", "B", "T", "V", ",", "u6E56", "u5317", "u53F0">>,
     <<"u6CB3", "u5357", "u536B", "u89C6", ",", "H", "N", "T", "V", ",", "u6CB3", "u5357", "u53F0">>,
     <<"u6CB3", "u5317", "u536B", "u89C6", ",", "H", "E", "B", "T", "V", ",", "u6CB3", "u5317", "u53F0">>,
     <<"u6C5F", "u897F", "u536B", "u89C6", ",", "J", "X", "T", "V", ",", "u6C5F", "u897F", "u53F0">>,
     <<"u9655", "u897F", "u536B", "u89C6", ",", "S", "X", "T", "V", ",", "u9655", "u897F", "u53F0">>,
     <<"u5C71", "u897F", "u536B", "u89C6", ",", "S", "X", "W", "S", ",", "u5C71", "u897F", "u53F0">>,
     <<"u5E7F", "u897F", "u536B", "u89C6", ",", "G", "X", "T", "V", ",", "u5E7F", "u897F", "u53F0">>,
     <<"u798F", "u5EFA", "u536B", "u89C6", ",", "F", "J", "T", "V", ",", "u798F", "u5EFA", "u53F0">>,
     <<"u4E91", "u5357", "u536B", "u89C6", ",", "Y", "N", "T", "V", ",", "u4E91", "u5357", "u53F0">>,
     <<"u8D35", "u5DDE", "u536B", "u89C6", ",", "G", "Z", "T", "V", ",", "u8D35", "u5DDE", "u53F0">>,
     <<"u7518", "u8083", "u536B", "u89C6", ",", "G", "S", "C", "T", "V", ",", "u7518", "u8083", "u53F0">>,
     <<"u5B81", "u590F", "u536B", "u89C6", ",", "N", "X", "T", "V", ",", "u5B81", "u590F", "u53F0">>,
     <<"u5185", "u8499", "u53E4", "u536B", "u89C6", ",", "N", "M", "G", "T", "V", ",", "u5185", "u8499", "u53E4", "u53F0">>,
     <<"u65B0", "u7586", "u536B", "u89C6", ",", "X", "J", "T", "V", ",", "u65B0", "u7586", "u53F0">>,
     <<"u897F", "u85CF", "u536B", "u89C6", ",", "X", "Z", "T", "V", ",", "u897F", "u85CF", "u53F0">>,
     <<"u6D77", "u5357", "u536B", "u89C6", ",", "H", "N", "T", "V", ",", "u6D77", "u5357", "u53F0">>,
     <<"u53A6", "u95E8", "u536B", "u89C6", ",", "X", "M", "T", "V", ",", "u53A6", "u95E8", "u53F0">>,
     <<"u5175", "u56E2", "u536B", "u89C6", ",", "B", "T", "T", "V", ",", "u5175", "u56E2", "u53F0">> >>
DefaultChannelList ==
  << <<"C", "C", "T", "V", "1">>,
     <<"C", "C", "T", "V", "2">>,
     <<"C", "C", "T", "V", "3">>,
     <<"C", "C", "T", "V", "4">>,
     <<"C", "C", "T", "V", "5">>,
     <<"C", "C", "T", "V", "6">>,
     <<"C", "C", "T", "V", "7">>,
     <<"C", "C", "T", "V", "8">>,
     <<"C", "C", "T", "V", "9">>,
     <<"C", "C", "T", "V", "1", "0">>,
     <<"C", "C", "T", "V", "1", "1">>,
     <<"C", "C", "T", "V", "1", "2">>,
     <<"C", "C", "T", "V", "1", "3">>,
     <<"C", "C", "T", "V", "1", "4">>,
     <<"C", "C", "T", "V", "1", "5">>,
     <<"C", "C", "T", "V", "1", "6">>,
     <<"C", "C", "T", "V", "1", "7">>,
     <<"u6E56", "u5357", "u536B", "u89C6">>,
     <<"u6D59", "u6C5F", "u536B", "u89C6">>,
     <<"u6C5F", "u82CF", "u536B", "u89C6">>,
     <<"u4E1C", "u65B9", "u536B", "u89C6">>,
     <<"u5317", "u4EAC", "u536B", "u89C6">>,
     <<"u5929", "u6D25", "u536B", "u89C6">>,
     <<"u5C71", "u4E1C", "u536B", "u89C6">>,
     <<"u5B89", "u5FBD", "u536B", "u89C6">>,
     <<"u5E7F", "u4E1C", "u536B", "u89C6">>,
     <<"u6DF1", "u5733", "u536B", "u89C6">>,
     <<"u9ED1", "u9F99", "u6C5F", "u536B", "u89C6">>,
     <<"u5409", "u6797", "u536B", "u89C6">>,
     <<"u8FBD", "u5B81", "u536B", "u89C6">>,
     <<"u56DB", "u5DDD", "u536B", "u89C6">>,
     <<"u91CD", "u5E86", "u536B", "u89C6">>,
     <<"u6E56", "u5317", "u536B", "u89C6">>,
     <<"u6CB3", "u5357", "u536B", "u89C6">>,
     <<"u6CB3", "u5317", "u536B", "u89C6">>,
     <<"u6C5F", "u897F", "u536B", "u89C6">>,
     <<"u9655", "u897F", "u536B", "u89C6">>,
     <<"u5C71", "u897F", "u536B", "u89C6">>,
     <<"u5E7F", "u897F", "u536B", "u89C6">>,
     <<"u798F", "u5EFA", "u536B", "u89C6">>,
     <<"u4E91", "u5357", "u536B", "u89C6">>,
     <<"u8D35", "u5DDE", "u536B", "u89C6">>,
     <<"u7518", "u8083", "u536B", "u89C6">>,
     <<"u5B81", "u590F", "u536B", "u89C6">>,
     <<"u5185", "u8499", "u53E4", "u536B", "u89C6">>,
     <<"u65B0", "u7586", "u536B", "u89C6">>,
     <<"u897F", "u85CF", "u536B", "u89C6">>,
     <<"u6D77", "u5357", "u536B", "u89C6">>,
     <<"u53A6", "u95E8", "u536B", "u89C6">>,
     <<"u5175", "u56E2", "u536B", "u89C6">> >>
DefaultCctvList ==
  << <<"C", "C", "T", "V", "1">>,
     <<"C", "C", "T", "V", "2">>,
     <<"C", "C", "T", "V", "3">>,
     <<"C", "C", "T", "V", "4">>,
     <<"C", "C", "T", "V", "5">>,
     <<"C", "C", "T", "V", "6">>,
     <<"C", "C", "T", "V", "7">>,
     <<"C", "C", "T", "V", "8">>,
     <<"C", "C", "T", "V", "9">>,
     <<"C", "C", "T", "V", "1", "0">>,
     <<"C", "C", "T", "V", "1", "1">>,
     <<"C", "C", "T", "V", "1", "2">>,
     <<"C", "C", "T", "V", "1", "3">>,
     <<"C", "C", "T", "V", "1", "4">>,
     <<"C", "C", "T", "V", "1", "5">>,
     <<"C", "C", "T", "V", "1", "6">>,
     <<"C", "C", "T", "V", "1", "7">> >>
DefaultWsList ==
  << <<"u6E56", "u5357", "u536B", "u89C6">>,
     <<"u6D59", "u6C5F", "u536B", "u89C6">>,
     <<"u6C5F", "u82CF", "u536B", "u89C6">>,
     <<"u4E1C", "u65B9", "u536B", "u89C6">>,
     <<"u5317", "u4EAC", "u536B", "u89C6">>,
     <<"u5929", "u6D25", "u536B", "u89C6">>,
     <<"u5C71", "u4E1C", "u536B", "u89C6">>,
     <<"u5B89", "u5FBD", "u536B", "u89C6">>,
     <<"u5E7F", "u4E1C", "u536B", "u89C6">>,
     <<"u6DF1", "u5733", "u536B", "u89C6">>,
     <<"u9ED1", "u9F99", "u6C5F", "u536B", "u89C6">>,
     <<"u5409", "u6797", "u536B", "u89C6">>,
     <<"u8FBD", "u5B81", "u536B", "u89C6">>,
     <<"u56DB", "u5DDD", "u536B", "u89C6">>,
     <<"u91CD", "u5E86", "u536B", "u89C6">>,
     <<"u6E56", "u5317", "u536B", "u89C6">>,
     <<"u6CB3", "u5357", "u536B", "u89C6">>,
     <<"u6CB3", "u5317", "u536B", "u89C6">>,
     <<"u6C5F", "u897F", "u536B", "u89C6">>,
     <<"u9655", "u897F", "u536B", "u89C6">>,
     <<"u5C71", "u897F", "u536B", "u89C6">>,
     <<"u5E7F", "u897F", "u536B", "u89C6">>,
     <<"u798F", "u5EFA", "u536B", "u89C6">>,
     <<"u4E91", "u5357", "u536B", "u89C6">>,
     <<"u8D35", "u5DDE", "u536B", "u89C6">>,
     <<"u7518", "u8083", "u536B", "u89C6">>,
     <<"u5B81", "u590F", "u536B", "u89C6">>,
     <<"u5185", "u8499", "u53E4", "u536B", "u89C6">>,
     <<"u65B0", "u7586", "u536B", "u89C6">>,
     <<"u897F", "u85CF", "u536B", "u89C6">>,
     <<"u6D77", "u5357", "u536B", "u89C6">>,
     <<"u53A6", "u95E8", "u536B", "u89C6">>,
     <<"u5175", "u56E2", "u536B", "u89C6">> >>

\* data files an operator keeps beside the scripts: a channel list that also
\* admits a spelling the rules rename, with a comment and an empty line
ChannelListFile ==
  <<<<"#", " ", "c", "h", "a", "n", "n", "e", "l", "s">>, <<"C", "C", "T", "V", "3">>, <<"C", "C", "T", "V", "-", "3">>, <<>>, <<"u6E56", "u5357", "u536B", "u89C6">>, <<"M", "o", "v", "i", "e">>>>
CctvListFile == <<<<"C", "C", "T", "V", "3">>>>
WsListFile == <<<<"u6E56", "u5357", "u536B", "u89C6">>>>
RenameRulesFile == <<<<"#", " ", "r", "u", "l", "e", "s">>, <<"C", "C", "T", "V", "3", ",", "C", "C", "T", "V", "-", "3">>, <<"u6E56", "u5357", "u536B", "u89C6", ",", "u6E56", "u5357", "u53F0">>>>

\* freetv1.0.py SOURCE_URLS and freetv2.0.py DEFAULT_SOURCE_URLS, the
\* URLs numbered in the configured order
SOURCE_URLS == <<1>>
DEFAULT_SOURCE_URLS == <<1, 2>>
source_urls_of(version) ==
  IF version = "1.0" THEN SOURCE_URLS ELSE DEFAULT_SOURCE_URLS

\* the lines a source may hold
LinePool ==
  { <<"C", "C", "T", "V", "3", ",", "h", "t", "t", "p", ":", "/", "/", "a">>,
    <<"C", "C", "T", "V", "3", ",", "h", "t", "t", "p", ":", "/", "/", "b">>,
    <<"C", "C", "T", "V", "-", "3", ",", "h", "t", "t", "p", ":", "/", "/", "c">>,
    <<"u6E56", "u5357", "u536B", "u89C6", ",", "h", "t", "t", "p", ":", "/", "/", "d">>,
    <<"M", "o", "v", "i", "e", ",", "h", "t", "t", "p", ":", "/", "/", "e">>,
    <<"C", "C", "T", "V", ",", "#", "g", "e", "n", "r", "e", "#">> }

\* number of lines of a source
MaxLines == 2

\* the rename rules and the three channel lists a processor starts with:
\* freetv1.0.py reads the files and has nothing when they are missing,
\* freetv2.0.py falls back to its built-in data
loaded_rename_dic(version, files_exist) ==
  IF version = "1.0"
    THEN IF files_exist THEN load_modify_name(RenameRulesFile) ELSE <<>>
    ELSE load_rename_rules(IF files_exist
                             THEN load_data_file(RenameRulesFile)
                             ELSE DefaultRenameRules)
loaded_channel_lists(version, files_exist) ==
  IF version = "1.0"
    THEN IF files_exist
           THEN [channel_list |-> read_txt_to_array(ChannelListFile),
                 cctv_list |-> read_txt_to_array(CctvListFile),
                 ws_list |-> read_txt_to_array(WsListFile)]
           ELSE [channel_list |-> <<>>, cctv_list |-> <<>>, ws_list |-> <<>>]
    ELSE IF files_exist
           THEN [channel_list |-> load_data_file(ChannelListFile),
                 cctv_list |-> load_data_file(CctvListFile),
                 ws_list |-> load_data_file(WsListFile)]
           ELSE [channel_list |-> DefaultChannelList,
                 cctv_list |-> DefaultCctvList,
                 ws_list |-> DefaultWsList]

\* FreeTVProcessor.__init__
InitFreeTV ==
  /\ InitManager
  /\ NormIdle
  /\ RunIdle
  /\ FnIdle
  /\ ftv_pc = "fetch"
  /\ ftv_version \in {"1.0", "2.0"}
  /\ \E files_exist \in BOOLEAN :
       /\ rename_dic = loaded_rename_dic(ftv_version, files_exist)
       /\ channel_lists = loaded_channel_lists(ftv_version, files_exist)
  /\ feed_pos = 1
  /\ freetv_lines = <<>>
  /\ categorized_channels = NoCategories
  /\ output_files = NoOutput

\* process_url with a fetched text of the given lines
process_url(text_lines) ==
  /\ ftv_pc = "fetch"
  /\ feed_pos <= Len(source_urls_of(ftv_version))
  /\ freetv_lines' =
       IF ftv_version = "1.0"
         THEN process_url_v1(freetv_lines, text_lines,
                             channel_lists.channel_list)
         ELSE process_url_v2(freetv_lines, text_lines,
                             channel_lists.channel_list)
  /\ feed_pos' = feed_pos + 1
  /\ UNCHANGED <<mgr_vars, norm_vars, run_vars, fn_vars, ftv_pc, ftv_version,
                 rename_dic, channel_lists, categorized_channels,
                 output_files>>

\* process_url when the request or the decoding raises: the error is logged
\* and the source adds nothing
process_url_error ==
  /\ ftv_pc = "fetch"
  /\ feed_pos <= Len(source_urls_of(ftv_version))
  /\ feed_pos' = feed_pos + 1
  /\ UNCHANGED <<mgr_vars, norm_vars, run_vars, fn_vars, ftv_pc, ftv_version,
                 rename_dic, channel_lists, freetv_lines,
                 categorized_channels, output_files>>

\* run: no line was accepted, return without writing a file
run_without_channels ==
  /\ ftv_pc = "fetch"
  /\ feed_pos > Len(source_urls_of(ftv_version))
  /\ freetv_lines = <<>>
  /\ ftv_pc' = "done"
  /\ UNCHANGED <<mgr_vars, norm_vars, run_vars, fn_vars, ftv_version, rename_dic,
                 channel_lists, feed_pos, freetv_lines, categorized_channels,
                 output_files>>

\* run: categorize_channels
categorize_channels ==
  /\ ftv_pc = "fetch"
  /\ feed_pos > Len(source_urls_of(ftv_version))
  /\ freetv_lines # <<>>
  /\ categorized_channels' =
       IF ftv_version = "1.0"
         THEN categorize_channels_v1(
                categorized_channels,
                rename_channel_v1(freetv_lines, rename_dic), channel_lists)
         ELSE categorize_channels_v2(
                categorized_channels,
                rename_channel_v2(freetv_lines, rename_dic), channel_lists)
  /\ ftv_pc' = "output"
  /\ UNCHANGED <<mgr_vars, norm_vars, run_vars, fn_vars, ftv_version, rename_dic,
                 channel_lists, feed_pos, freetv_lines, output_files>>

\* run: generate_output_files
generate_output_files ==
  /\ ftv_pc = "output"
  /\ output_files' =
       IF ftv_version = "1.0"
         THEN generate_output_files_v1(freetv_lines, rename_dic,
                                       categorized_channels)
         ELSE generate_output_files_v2(freetv_lines, rename_dic,
                                       categorized_channels)
  /\ ftv_pc' = "done"
  /\ UNCHANGED <<mgr_vars, norm_vars, run_vars, fn_vars, ftv_version, rename_dic,
                 channel_lists, feed_pos, freetv_lines,
                 categorized_channels>>

NextFreeTV ==
  \/ \E text_lines \in strings_upto(LinePool, MaxLines) :
       process_url(text_lines)
  \/ process_url_error
  \/ run_without_channels
  \/ categorize_channels
  \/ generate_output_files

SpecFreeTV == InitFreeTV /\ [][NextFreeTV]_vars

\* the name and the URL of a playlist line, the URL without what follows "$"
record_of(line) ==
  <<split_once(line, ",")[1], split(split_once(line, ",")[2], "$")[1]>>

\* the records of a text playlist: its lines after the four header lines
txt_records(file) ==
  [i \in 1..(Len(file) - 4) |-> record_of(file[i + 4])]

\* the records of an M3U playlist: the pairs of lines after "#EXTM3U"
m3u_records(file) ==
  [i \in 1..((Len(file) - 1) \div 2) |->
     <<SubSeq(file[2 * i], Len(ExtInf) + 1, Len(file[2 * i])),
       split(file[2 * i + 1], "$")[1]>>]

\* the record lists of the eight output files
output_lists ==
  { txt_records(output_files.complete_txt),
    m3u_records(output_files.complete_m3u),
    txt_records(output_files.cctv_txt), m3u_records(output_files.cctv_m3u),
    txt_records(output_files.ws_txt), m3u_records(output_files.ws_m3u),
    txt_records(output_files.other_txt),
    m3u_records(output_files.other_m3u) }

\* the accepted records in arrival order, under their names after renaming
arrived_records ==
  LET renamed == IF ftv_version = "1.0"
                   THEN rename_channel_v1(freetv_lines, rename_dic)
                   ELSE rename_channel_v2(freetv_lines, rename_dic)
  IN  [i \in DOMAIN renamed |-> record_of(renamed[i])]

\* the URL of the first arrived record of a name
first_url(name) ==
  arrived_records[CHOOSE i \in DOMAIN arrived_records :
                    /\ arrived_records[i][1] = name
                    /\ \A j \in 1..(i - 1) : arrived_records[j][1] # name][2]

\* C6: every output list of a finished run has at most one record per channel
\* name after renaming, and that record carries the URL of the first arrived
\* record of the name
C6_OneRecordPerNameFirstWins ==
  ftv_pc = "done" =>
    \A list \in output_lists :
      /\ \A i, j \in DOMAIN list : i # j => list[i][1] # list[j][1]
      /\ \A i \in DOMAIN list : list[i][2] = first_url(list[i][1])


\* the name and the URL of a playlist line as they are written
written_record(line) == <<split_once(line, ",")[1], split_once(line, ",")[2]>>

\* the records of a text playlist and of an M3U playlist as they are written
txt_written(file) ==
  [i \in 1..(Len(file) - 4) |-> written_record(file[i + 4])]
m3u_written(file) ==
  [i \in 1..((Len(file) - 1) \div 2) |->
     <<SubSeq(file[2 * i], Len(ExtInf) + 1, Len(file[2 * i])),
       file[2 * i + 1]>>]

\* the written records of the complete lists and of the category lists
complete_written ==
  {txt_written(output_files.complete_txt),
   m3u_written(output_files.complete_m3u)}
category_written ==
  {txt_written(output_files.cctv_txt), m3u_written(output_files.cctv_m3u),
   txt_written(output_files.ws_txt), m3u_written(output_files.ws_m3u),
   txt_written(output_files.other_txt),
   m3u_written(output_files.other_m3u)}

\* the URLs read from the accepted source lines that carry a name after
\* renaming: a line of freetv_lines is name, ",", URL, "$" and the name with
\* "_" for " ", so the URL read is what precedes that marker
urls_read(name) ==
  LET renamed == IF ftv_version = "1.0"
                   THEN rename_channel_v1(freetv_lines, rename_dic)
                   ELSE rename_channel_v2(freetv_lines, rename_dic)
      marker(i) == 1 + Len(replace(strip(split_once(freetv_lines[i], ",")[1]),
                                   <<" ">>, <<"_">>))
      address(i) == split_once(freetv_lines[i], ",")[2]
  IN  {SubSeq(address(i), 1, Len(address(i)) - marker(i)) :
         i \in {k \in DOMAIN freetv_lines :
                  split_once(renamed[k], ",")[1] = name}}

\* every record of the given lists carries a URL read from a source line
urls_as_read(lists) ==
  \A list \in lists : \A i \in DOMAIN list :
    list[i][2] \in urls_read(list[i][1])

\* C11: every record written to a playlist file of a finished run, complete
\* or category list, text or M3U, carries the URL read from its source line,
\* without the "$" marker process_channel_line appended
C11_WrittenUrlsAsRead ==
  ftv_pc = "done" => urls_as_read(complete_written \cup category_written)


(***************************************************************************)
(* The line filters applied to one source line                             *)
(***************************************************************************)
\* the pieces a source line is made of
LineTokens ==
  { <<"#", "g", "e", "n", "r", "e", "#">>, <<":", "/", "/">>, <<",">>, <<"a", "b">>, <<"#">>, <<"h", "t", "t", "p">>, <<" ">> }

\* number of pieces of a line
MaxTokens == 3

\* the concatenations of up to n of the given pieces
RECURSIVE texts_upto(_, _)
texts_upto(tokens, n) ==
  IF n = 0 THEN {<<>>}
  ELSE LET shorter == texts_upto(tokens, n - 1)
       IN  shorter \cup {s \o t : s \in shorter, t \in tokens}

InitLines ==
  /\ InitManager
  /\ NormIdle
  /\ RunIdle
  /\ FreeTVIdle
  /\ fn_pc = "input"
  /\ fn_arg \in texts_upto(LineTokens, MaxTokens)
  /\ fn_result = {}

\* freetv1.0.py process_channel_line on the line, freetv_lines empty before
apply_process_channel_line_v1 ==
  /\ fn_pc = "input"
  /\ fn_pc' = "process_channel_line_v1"
  /\ fn_result' = Range(process_channel_line_v1(<<>>, fn_arg))
  /\ UNCHANGED <<mgr_vars, norm_vars, run_vars, ftv_vars, fn_arg>>

\* freetv2.0.py process_channel_line on the line, freetv_lines empty before
apply_process_channel_line_v2 ==
  /\ fn_pc = "input"
  /\ fn_pc' = "process_channel_line_v2"
  /\ fn_result' = Range(process_channel_line_v2(<<>>, fn_arg))
  /\ UNCHANGED <<mgr_vars, norm_vars, run_vars, ftv_vars, fn_arg>>

\* AdvancedChannelParser.parse_channels_from_content on a text of one line
apply_parse_channels_from_content ==
  /\ fn_pc = "input"
  /\ fn_pc' = "parse_channels_from_content"
  /\ fn_result' = parse_channels_from_content(fn_arg)
  /\ UNCHANGED <<mgr_vars, norm_vars, run_vars, ftv_vars, fn_arg>>

NextLines ==
  \/ apply_process_channel_line_v1
  \/ apply_process_channel_line_v2
  \/ apply_parse_channels_from_content

SpecLines == InitLines /\ [][NextLines]_vars

\* a line of the form of a channel entry: a comma, "://", no "#genre#"
entry_form(line) ==
  /\ contains(line, <<",">>)
  /\ contains(line, SchemeMark)
  /\ ~contains(line, GenreMark)

\* C12: a line yields an entry of the FreeTV line filter, or a channel name of
\* parse_channels_from_content, only if it holds a comma and "://" and does
\* not hold "#genre#"
C12_OnlyEntryLinesAccepted ==
  (fn_pc \in {"process_channel_line_v1", "process_channel_line_v2",
              "parse_channels_from_content"} /\ fn_result # {})
    => entry_form(fn_arg)


(***************************************************************************)
(* Further claims about the alias table                                    *)
(***************************************************************************)
\* the name the last add_channel call was given, in the state after it
last_added == added'[Len(added')]

\* C13: an add_channel call with an empty name or a name of fewer than 2
\* characters creates no canonical channel and leaves standard_to_aliases and
\* alias_to_standard as they were
C13_ShortNameRejected ==
  [][(added' # added /\ Len(last_added) < 2)
       => /\ standard_to_aliases' = standard_to_aliases
          /\ alias_to_standard' = alias_to_standard]_vars

\* a one-character name and the empty name were added after a channel
C13_Witness ==
  /\ Len(added) = 3
  /\ Len(added[1]) >= 2
  /\ Len(added[2]) = 1
  /\ added[3] = <<>>
  /\ DOMAIN standard_to_aliases # {}

\* what find_standard_name answers for the name of the add_channel call
found_for_last == find_standard_name(alias_to_standard, last_added)

\* C14: when find_standard_name answers is_new = True in an add_channel call,
\* the name it synthesized is not yet a key of standard_to_aliases
C14_NewMeansNoSuchChannel ==
  [][(added' # added /\ ~too_short(last_added) /\ found_for_last.is_new)
       => found_for_last.standard \notin DOMAIN standard_to_aliases]_vars

\* the places of alias_to_standard whose alias has the matching key of a name
same_key_places(name) ==
  {i \in DOMAIN alias_to_standard :
     clean_for_matching(alias_to_standard[i][1]) = clean_for_matching(name)}

\* the owner of the alias of that key that was inserted first
earliest_owner(name) ==
  alias_to_standard[CHOOSE i \in same_key_places(name) :
                      \A j \in same_key_places(name) : i <= j][2]

\* C15: when the name of an add_channel call is not a key of the alias index
\* and aliases of the index have its matching key, the call resolves the name
\* to the owner of the earliest inserted of these aliases, and records the
\* name under that owner
C15_EarliestAliasOwnerWins ==
  [][(/\ added' # added
      /\ ~too_short(last_added)
      /\ ~dict_has(alias_to_standard, last_added)
      /\ same_key_places(last_added) # {})
       => /\ found_for_last
               = [standard |-> earliest_owner(last_added), is_new |-> FALSE]
          /\ DOMAIN standard_to_aliases' = DOMAIN standard_to_aliases
          /\ last_added # earliest_owner(last_added)
               => /\ dict_get(alias_to_standard', last_added)
                       = earliest_owner(last_added)
                  /\ last_added
                       \in standard_to_aliases'[earliest_owner(last_added)]]_vars

\* "CCTV1 HD" was added when aliases of its matching key belonged to the
\* channels CC-TV1 and CCTV1, the one of CC-TV1 inserted first
C15_Witness ==
  /\ added = << <<"C", "C", "-", "T", "V", "1", " ", "H", "D">>,
                CCTV \o <<" ", "1", " ", "u7EFC", "u5408">>,
                CCTV \o <<"1", " ", "H", "D">> >>
  /\ \E i, j \in same_key_places(added[3]) :
       /\ i < j
       /\ j < Len(alias_to_standard)
       /\ alias_to_standard[i][2] = <<"C", "C", "-", "T", "V", "1">>
       /\ alias_to_standard[j][2] = CCTV \o <<"1">>
  /\ owned_by(added[3], <<"C", "C", "-", "T", "V", "1">>)


(***************************************************************************)
(* generate_standard_name applied to one raw name                          *)
(***************************************************************************)
\* the pieces a raw name is made of
NameTokens ==
  { <<"C", "C", "T", "V">>, <<"c", "c", "t", "v", "-">>, <<"5", "+">>, <<"1">>, <<"u6E56", "u5357", "u536B", "u89C6">>, <<"u6C5F", "u82CF">>, <<"u536B", "u89C6">>, <<"H", "D">>, <<" ">>,
    <<"a", "b", "c", "d", "e", "f", "g", "h", "i", "j", "k", "l", "m", "n", "o", "p">> }

\* number of pieces of a raw name
MaxNameTokens == 3

InitNames ==
  /\ InitManager
  /\ NormIdle
  /\ RunIdle
  /\ FreeTVIdle
  /\ fn_pc = "input"
  /\ fn_arg \in texts_upto(NameTokens, MaxNameTokens)
  /\ fn_result = {}

\* ChannelAliasManager.generate_standard_name on the raw name
apply_generate_standard_name ==
  /\ fn_pc = "input"
  /\ fn_pc' = "generate_standard_name"
  /\ fn_result' = {generate_standard_name(fn_arg)}
  /\ UNCHANGED <<mgr_vars, norm_vars, run_vars, ftv_vars, fn_arg>>

NextNames == apply_generate_standard_name

SpecNames == InitNames /\ [][NextNames]_vars

\* "CCTV" in any case stands in name at i
cctv_letters_at(name, i) ==
  /\ i + 3 <= Len(name)
  /\ lower(SubSeq(name, i, i + 3)) = <<"c", "c", "t", "v">>

\* the CCTV numbering pattern stands in name at i: "CCTV" in any case at i,
\* then only "-" and whitespace up to j, digits from j, and the number with
\* its optional "+" ends at e
cctv_number_at(name, i, j, e) ==
  /\ cctv_letters_at(name, i)
  /\ i + 4 <= j /\ j <= e /\ e <= Len(name)
  /\ \A k \in (i + 4)..(j - 1) : name[k] \in {"-", " ", "\t", "\n"}
  /\ LET d == IF name[e] = "+" THEN e - 1 ELSE e
     IN  /\ j <= d
         /\ \A k \in j..d : name[k] \in Digits
         /\ d = Len(name) \/ name[d + 1] \notin Digits
         /\ d = e => (e = Len(name) \/ name[e + 1] # "+")

\* the CCTV numbering pattern stands in name at i
cctv_number_from(name, i) ==
  /\ cctv_letters_at(name, i)
  /\ \E j \in (i + 4)..Len(name) :
       /\ name[j] \in Digits
       /\ \E e \in j..Len(name) : cctv_number_at(name, i, j, e)
has_cctv_number(name) ==
  \E i \in 1..Len(name) : cctv_number_from(name, i)

\* the listed regions a name holds together with the satellite marker
regions_in(name) ==
  {r \in DOMAIN Regions :
     contains(name, Regions[r]) /\ contains(name, WeiShi)}

\* C16: generate_standard_name yields, from the raw text alone: "CCTV", the
\* digits and the optional "+" of the leftmost CCTV numbering pattern when
\* the name holds one, also when it holds a region and the satellite marker;
\* else the first listed region the name holds, with the satellite marker,
\* when it holds that marker; else the name cleaned by clean_channel_name and
\* cut to 30 characters, "Unknown" when the cleaned name is empty
C16_StandardNamePrecedence ==
  fn_pc = "generate_standard_name" =>
    \E name \in fn_result :
      /\ fn_result = {name}
      /\ has_cctv_number(fn_arg) =>
           \E i \in 1..Len(fn_arg) :
             /\ cctv_number_from(fn_arg, i)
             /\ \A h \in 1..(i - 1) : ~cctv_number_from(fn_arg, h)
             /\ \E j \in (i + 4)..Len(fn_arg) : \E e \in j..Len(fn_arg) :
                  /\ cctv_number_at(fn_arg, i, j, e)
                  /\ name = <<"C", "C", "T", "V">> \o SubSeq(fn_arg, j, e)
      /\ (~has_cctv_number(fn_arg) /\ regions_in(fn_arg) # {}) =>
           \E r \in regions_in(fn_arg) :
             /\ \A q \in regions_in(fn_arg) : r <= q
             /\ name = Regions[r] \o WeiShi
      /\ (~has_cctv_number(fn_arg) /\ regions_in(fn_arg) = {}) =>
           LET clean_name == clean_channel_name(fn_arg)
           IN  /\ Len(name) <= 30
               /\ clean_name = <<>> => name = Unknown
               /\ clean_name # <<>> =>
                    name = SubSeq(clean_name, 1,
                                  IF Len(clean_name) < 30
                                    THEN Len(clean_name) ELSE 30)

\* a name with a CCTV number, a listed region and the satellite marker was
\* given the CCTV name
C16_Witness ==
  /\ fn_pc = "generate_standard_name"
  /\ fn_arg = <<"C", "C", "T", "V", "1", "u6E56", "u5357", "u536B", "u89C6">>
  /\ fn_result = {<<"C", "C", "T", "V", "1">>}


\* C17: across every add_channel step no key of standard_to_aliases is
\* removed or renamed and no alias is removed from the alias set of an
\* existing canonical channel
C17_IdentitiesOnlyGrow ==
  [][/\ DOMAIN standard_to_aliases \subseteq DOMAIN standard_to_aliases'
     /\ \A S \in DOMAIN standard_to_aliases :
          standard_to_aliases[S] \subseteq standard_to_aliases'[S]]_vars

\* a second canonical channel was created and then the first one, which
\* already had its base aliases, was given one more alias
C17_Witness ==
  /\ added = <<<<"C", "C", "T", "V", "-", "1">>, <<"u6E56", "u5357", "u536B", "u89C6">>, <<"C", "C", "T", "V", "1", " ", "H", "D">>>>
  /\ DOMAIN standard_to_aliases = {<<"C", "C", "T", "V", "1">>, <<"u6E56", "u5357", "u536B", "u89C6">>}
  /\ {<<"C", "C", "T", "V", "-", "1">>, <<"C", "C", "T", "V", "1", " ", "H", "D">>, <<"C", "C", "T", "V", "0", "1">>} \subseteq standard_to_aliases[<<"C", "C", "T", "V", "1">>]


(***************************************************************************)
(* The alias file as save_aliases_to_file wrote it                         *)
(***************************************************************************)
section_headers == <<CCTVHeader, SatelliteHeader, OtherHeader>>

\* a line of the file that is a channel row
data_row(line) == line # <<>> /\ line[1] # "#"
row_name(line) == split(line, ",")[1]
row_aliases(line) ==
  LET rest == SubSeq(line, Len(row_name(line)) + 2, Len(line))
  IN  IF rest = <<>> THEN <<>> ELSE split(rest, ",")

\* the section line i of the file stands in: the number of the nearest
\* section header above it, 0 above every section header
section_at(lines, i) ==
  IF \E h \in 1..(i - 1) : \E k \in 1..3 : lines[h] = section_headers[k]
    THEN CHOOSE k \in 1..3 :
           \E h \in 1..(i - 1) :
             /\ lines[h] = section_headers[k]
             /\ \A g \in (h + 1)..(i - 1) : \A l \in 1..3 :
                  lines[g] # section_headers[l]
    ELSE 0

\* the section of a canonical name, from the name alone
section_of_name(standard) ==
  IF startswith(standard, <<"C", "C", "T", "V">>) THEN 1
  ELSE IF contains(standard, WeiShi) THEN 2
  ELSE 3

strictly_ascending(names) ==
  \A i, j \in DOMAIN names : i < j => str_less(names[i], names[j])

\* C18: in the file a completed save_aliases_to_file wrote, every canonical
\* channel has exactly one row, in the section its name alone selects (CCTV
\* for a name starting with "CCTV", else Satellite for a name containing the
\* satellite marker, else Other); the section headers come in the order
\* CCTV, Satellite, Other; the names of the rows of a section ascend; and the
\* alias list of every row ascends and does not hold the row's own name
C18_SectionsByNameSorted ==
  returned = "True" =>
    LET lines == disk.lines
        rows == {i \in DOMAIN lines : data_row(lines[i])}
    IN  /\ \A standard \in DOMAIN standard_to_aliases :
             \E i \in rows :
               /\ row_name(lines[i]) = standard
               /\ section_at(lines, i) = section_of_name(standard)
               /\ \A j \in rows \ {i} : row_name(lines[j]) # standard
        /\ \A i \in rows : row_name(lines[i]) \in DOMAIN standard_to_aliases
        /\ \A i, j \in DOMAIN lines : \A k, l \in 1..3 :
             (i < j /\ lines[i] = section_headers[k]
                    /\ lines[j] = section_headers[l]) => k < l
        /\ \A i, j \in rows :
             (i < j /\ section_at(lines, i) = section_at(lines, j))
               => str_less(row_name(lines[i]), row_name(lines[j]))
        /\ \A i \in rows :
             /\ strictly_ascending(row_aliases(lines[i]))
             /\ \A a \in DOMAIN row_aliases(lines[i]) :
                  row_aliases(lines[i])[a] # row_name(lines[i])

\* a file with all three sections was written, two rows in the CCTV section,
\* and the satellite channel, whose alias set holds its own name, has a row
C18_Witness ==
  /\ returned = "True"
  /\ \A k \in 1..3 : \E i \in DOMAIN disk.lines : disk.lines[i] = section_headers[k]
  /\ \E i, j \in DOMAIN disk.lines :
       /\ i < j
       /\ data_row(disk.lines[i]) /\ data_row(disk.lines[j])
       /\ section_at(disk.lines, i) = 1 /\ section_at(disk.lines, j) = 1
  /\ <<"u6E56", "u5357", "u536B", "u89C6">> \in DOMAIN standard_to_aliases
  /\ <<"u6E56", "u5357", "u536B", "u89C6">> \in standard_to_aliases[<<"u6E56", "u5357", "u536B", "u89C6">>]


(***************************************************************************)
(* The session.get calls of fetch_live_sources                             *)
(***************************************************************************)
\* the positions of the log where url was requested
attempts_of(url) == {i \in DOMAIN fetch_log : fetch_log[i].url = url}

\* url was answered with 200
succeeded(url) == \E i \in attempts_of(url) : fetch_log[i].ok

\* fetch_live_sources has returned
fetch_returned == run_pc \notin {"load", "fetch"}

\* what the log says at every moment: a URL is requested at most max_retries
\* times and never again after a 200; URLs are requested in list order
C19_BoundedAttempts ==
  /\ \A i \in DOMAIN source_urls :
       Cardinality(attempts_of(source_urls[i])) <= 2
  /\ \A i, j \in DOMAIN fetch_log :
       (i < j /\ fetch_log[i].url = fetch_log[j].url) => ~fetch_log[i].ok
  /\ \A i, j \in DOMAIN fetch_log :
       i < j => fetch_log[i].url <= fetch_log[j].url

\* what holds once fetch_live_sources has returned: every URL of the list
\* was requested, a URL without a 200 exactly max_retries times, and the
\* dict returned holds exactly the URLs that were answered with 200, each
\* with the text of that answer
C19_ReturnsSucceeded ==
  (fetch_returned /\ source_urls # <<>>) =>
    /\ \A i \in DOMAIN source_urls :
         /\ attempts_of(source_urls[i]) # {}
         /\ ~succeeded(source_urls[i]) =>
              Cardinality(attempts_of(source_urls[i])) = 2
         /\ succeeded(source_urls[i]) <=> dict_has(contents, source_urls[i])
    /\ dict_keys(contents) \subseteq Range(source_urls)
    /\ \A i \in DOMAIN fetch_log :
         fetch_log[i].ok =>
           dict_get(contents, fetch_log[i].url) = fetch_log[i].text

\* C19: fetch_live_sources requests each URL at most max_retries (2) times
\* and not again after its first 200; a URL that failed every attempt is left
\* out and the later URLs are still requested; the loop ends whatever the
\* answers are, and the dict returned holds exactly the URLs that succeeded
C19_BoundedRetriesPerUrl ==
  /\ [](C19_BoundedAttempts /\ C19_ReturnsSucceeded)
  /\ <>fetch_returned

\* the first URL failed both attempts, the second was answered with 200 on
\* its second attempt, and the dict returned holds the second URL alone
C19_Witness ==
  /\ fetch_returned
  /\ Len(source_urls) = 2
  /\ Len(fetch_log) = 4
  /\ ~fetch_log[1].ok /\ ~fetch_log[2].ok /\ ~fetch_log[3].ok /\ fetch_log[4].ok
  /\ dict_keys(contents) = {source_urls[2]}


\* C20: no add_channel call changes the canonical name an alias of the index
\* is mapped to
C20_AliasOwnershipStable ==
  [][\A i \in DOMAIN alias_to_standard :
       dict_get(alias_to_standard', alias_to_standard[i][1])
         = alias_to_standard[i][2]]_vars


(***************************************************************************)
(* The table as a function of the names added                              *)
(***************************************************************************)
\* for channel in channels: self.manager.add_channel(channel), on the
\* manager with the tables s2a and a2s
RECURSIVE add_channels(_, _, _)
add_channels(s2a, a2s, channels) ==
  IF channels = <<>> THEN [s2a |-> s2a, a2s |-> a2s]
  ELSE LET r == add_channel_result(s2a, a2s, Head(channels))
       IN  add_channels(r.s2a, r.a2s, Tail(channels))

\* the orderings of the positions 1..n
orderings(n) ==
  {p \in [1..n -> 1..n] : \A i, j \in 1..n : p[i] = p[j] => i = j}

\* the alias index as a mapping, without the order of insertion
mapping_of(a2s) == {a2s[i] : i \in DOMAIN a2s}

\* C21: when the names added so far are pairwise different, adding them to an
\* empty manager in any other order ends with the same canonical names and
\* the same mapping from alias to canonical name
C21_OrderIndependent ==
  (\A i, j \in DOMAIN added : added[i] = added[j] => i = j) =>
    \A p \in orderings(Len(added)) :
      LET other == add_channels(<<>>, <<>>, [i \in DOMAIN added |-> added[p[i]]])
      IN  /\ DOMAIN other.s2a = DOMAIN standard_to_aliases
          /\ mapping_of(other.a2s) = mapping_of(alias_to_standard)


\* C22: when add_channel is called with the name of the call before it, the
\* second call leaves standard_to_aliases and alias_to_standard as the first
\* call left them and resolves the name to the canonical name the first call
\* resolved it to
C22_RepeatedAddIdempotent ==
  [][(/\ added' # added
      /\ added # <<>>
      /\ last_added = added[Len(added)])
       => /\ standard_to_aliases' = standard_to_aliases
          /\ alias_to_standard' = alias_to_standard
          /\ resolved'[Len(resolved')] = resolved[Len(resolved)]]_vars

\* "CCTV1" was added twice in a row to a table with another channel: the
\* first call created the channel CCTV1, whose name is no key of the alias
\* index, and the second call found it by the matching key of its aliases
C22_Witness ==
  /\ added = <<<<"u6E56", "u5357", "u536B", "u89C6">>, <<"C", "C", "T", "V", "1">>, <<"C", "C", "T", "V", "1">>>>
  /\ resolved = <<<<"u6E56", "u5357", "u536B", "u89C6">>, <<"C", "C", "T", "V", "1">>, <<"C", "C", "T", "V", "1">>>>
  /\ DOMAIN standard_to_aliases = {<<"u6E56", "u5357", "u536B", "u89C6">>, <<"C", "C", "T", "V", "1">>}
  /\ ~dict_has(alias_to_standard, <<"C", "C", "T", "V", "1">>)
  /\ find_standard_name(alias_to_standard, <<"C", "C", "T", "V", "1">>)
       = [standard |-> <<"C", "C", "T", "V", "1">>, is_new |-> FALSE]

=============================================================================
